---- MODULE Spec2Model ----
(***************************************************************************)
(* Recipe API (mitdag/recipe-app-api): the persistent store (User, Tag,    *)
(* Ingredient, Recipe tables and the two many-to-many relations) and the   *)
(* HTTP handlers of app/recipe and app/user that read and write it.        *)
(* A request is received, handled by one handler from authentication to   *)
(* response in a single step, and closed when the response is delivered.  *)
(***************************************************************************)
EXTENDS Integers, Sequences, FiniteSets, TLC

\* ---------------------------------------------------------------- bounds
MaxRecipeId == 2      \* recipes ever created
MaxTagId == 2         \* tags ever created
MaxIngredientId == 2  \* ingredients ever created
MaxLen == 2           \* longest tag / ingredient list of a payload
MaxRows == 4          \* recipes, tags and ingredients ever created, together
MaxUserId == 2        \* users ever registered
MaxEmailLen == 3      \* longest e-mail address of a call or a payload
MaxChecks == 20       \* failed database checks of wait_for_db

\* ---------------------------------------------------------------- inputs
None == "None"
Anonymous == "anonymous"
Users == {"u1", "u2"}
Names == {"a", "b"}
Alphabet == <<"a", "b">>    \* the names in lexicographic order
Titles == {"t1", "t2"}
ProfileNames == {"n1"}
Workers == {"w1", "w2"}
\* the characters of an e-mail address: a letter in both cases, the
\* separator, white space
Chars == {"a", "A", "@", " "}
\* an address is the sequence of its characters; "" is <<>>
Addresses == UNION {[1..k -> Chars] : k \in 0..MaxEmailLen}
\* the addresses users register and are created with: none, one without
\* "@", and one address in the four spellings of its two parts
Emails == {<<>>, <<"a">>, <<"a", "@", "a">>, <<"A", "@", "a">>,
           <<"a", "@", "A">>, <<"A", "@", "A">>}
\* None where an address is expected
NoEmail == <<None>>
Passwords == {"pass", "password"}

HTTP_200_OK == 200
HTTP_201_CREATED == 201
HTTP_204_NO_CONTENT == 204
HTTP_400_BAD_REQUEST == 400
HTTP_401_UNAUTHORIZED == 401
HTTP_404_NOT_FOUND == 404
HTTP_405_METHOD_NOT_ALLOWED == 405

\* Name lists of a payload: [{"name": n1}, {"name": n2}, ...]
NameLists(n) == UNION {[1..k -> Names] : k \in 0..n}

\* A query-string value is modelled by its comma-separated tokens.
Tokens == {"1", "x"}
QueryStrings == {<<t>> : t \in Tokens}

VARIABLES
    User,           \* core.User rows: the user of a token -> [name] where the
                    \* recipes are looked at, id -> [email, password, name,
                    \* is_staff] where the accounts are
    Tag,            \* core.Tag rows: id -> [user, name]
    Ingredient,     \* core.Ingredient rows: id -> [user, name]
    Recipe,         \* core.Recipe rows: id -> [user, title, image, tags, ingredients]
    tag_seq,        \* next id of the Tag table
    ingredient_seq, \* next id of the Ingredient table
    recipe_seq,     \* next id of the Recipe table
    request,        \* the request in flight
    response,       \* its response, once handled
    workers,        \* server processes handling requests side by side, each
                    \* with its place in RecipeSerializer.create
    command,        \* the wait_for_db command: its place in handle, db_up,
                    \* what it wrote to stdout, the outcomes of its checks
    database        \* whether the database accepts connections

store == <<User, Tag, Ingredient, Recipe, tag_seq, ingredient_seq, recipe_seq>>
wait == <<command, database>>
vars == <<User, Tag, Ingredient, Recipe, tag_seq, ingredient_seq, recipe_seq,
          request, response, workers, command, database>>

\* ------------------------------------------------------------ python dicts
\* A payload is a dict: a function whose domain is the set of keys present.
EmptyDict == [k \in {} |-> None]

\* opt is {} (key absent) or {v} (key present with value v)
Field(k, opt) == [x \in (IF opt = {} THEN {} ELSE {k}) |-> CHOOSE v \in opt : TRUE]

Optional(S) == {{}} \cup {{v} : v \in S}

\* dict.pop(key, default) / dict.get(key, default): the value read
Get(d, k, default) == IF k \in DOMAIN d THEN d[k] ELSE default

\* the dict without the keys of K
Without(d, K) == [k \in (DOMAIN d) \ K |-> d[k]]

\* the dict restricted to the keys of K
Restrict(d, K) == [k \in (DOMAIN d) \cap K |-> d[k]]

\* ------------------------------------------------------------ serializers
\* Writable fields of the serializers (Meta.fields minus read_only_fields);
\* a key of the request body that is no field of the serializer is dropped.
\* a TagSerializer that lets the owner be written
TagSerializerFieldsWithUser == {"name", "user"}

TagSerializerFields == {"name"}
IngredientSerializerFields == {"name"}
RecipeSerializerFields == {"title", "tags", "ingredients"}
RecipeDetailSerializerFields == RecipeSerializerFields \cup {"image"}
RecipeImageSerializerFields == {"image"}
\* fields without a default or blank=True: required unless partial
RecipeRequiredFields == {"title"}

\* objects.create in place of get_or_create: a row for every element
create_always(st, auth_user, name) ==
    [rows |-> st.rows @@ (st.seq :> [user |-> auth_user, name |-> name]),
     seq |-> st.seq + 1,
     attached |-> st.attached \cup {st.seq},
     raised |-> None]

\* Tag.objects.get_or_create(user=auth_user, name=name) followed by
\* recipe.tags.add(tag_obj), for one element of the list.
\* st = [rows, seq, attached, raised]
get_or_create(st, auth_user, name) ==
    LET found == {i \in DOMAIN st.rows :
                    st.rows[i].user = auth_user /\ st.rows[i].name = name}
    IN  IF Cardinality(found) > 1
        THEN [st EXCEPT !.raised = "MultipleObjectsReturned"]
        ELSE IF found = {}
        THEN [rows |-> st.rows @@ (st.seq :> [user |-> auth_user, name |-> name]),
              seq |-> st.seq + 1,
              attached |-> st.attached \cup {st.seq},
              raised |-> None]
        ELSE [st EXCEPT !.attached = @ \cup found]

\* get_or_create without the user in the lookup: the name is looked up among
\* the rows of every user
get_or_create_any_user(st, auth_user, name) ==
    LET found == {i \in DOMAIN st.rows : st.rows[i].name = name}
    IN  IF Cardinality(found) > 1
        THEN [st EXCEPT !.raised = "MultipleObjectsReturned"]
        ELSE IF found = {}
        THEN [rows |-> st.rows @@ (st.seq :> [user |-> auth_user, name |-> name]),
              seq |-> st.seq + 1,
              attached |-> st.attached \cup {st.seq},
              raised |-> None]
        ELSE [st EXCEPT !.attached = @ \cup found]

\* the tag list reconciled against the tags of every user
RECURSIVE get_or_create_tags_any_user(_, _, _)
get_or_create_tags_any_user(tags, auth_user, st) ==
    IF tags = <<>> \/ st.raised # None THEN st
    ELSE get_or_create_tags_any_user(Tail(tags), auth_user,
                                     get_or_create_any_user(st, auth_user, Head(tags)))

RECURSIVE get_or_create_tags(_, _, _)
get_or_create_tags(tags, auth_user, st) ==
    IF tags = <<>> \/ st.raised # None THEN st
    ELSE get_or_create_tags(Tail(tags), auth_user,
                            get_or_create(st, auth_user, Head(tags)))

\* the ingredient list reconciled against the ingredients of every user
RECURSIVE get_or_create_ingredients_any_user(_, _, _)
get_or_create_ingredients_any_user(ingredients, auth_user, st) ==
    IF ingredients = <<>> \/ st.raised # None THEN st
    ELSE get_or_create_ingredients_any_user(
            Tail(ingredients), auth_user,
            get_or_create_any_user(st, auth_user, Head(ingredients)))

RECURSIVE get_or_create_ingredients(_, _, _)
get_or_create_ingredients(ingredients, auth_user, st) ==
    IF ingredients = <<>> \/ st.raised # None THEN st
    ELSE get_or_create_ingredients(Tail(ingredients), auth_user,
                                   get_or_create(st, auth_user, Head(ingredients)))

\* ------------------------------------------------------------- UserManager
\* str.lower()
lower(str) == [k \in DOMAIN str |-> IF str[k] = "A" THEN "a" ELSE str[k]]

\* str.strip(): the string without its leading and trailing white space
RECURSIVE lstrip(_)
lstrip(str) == IF str # <<>> /\ Head(str) = " " THEN lstrip(Tail(str)) ELSE str
RECURSIVE rstrip(_)
rstrip(str) ==
    IF str # <<>> /\ str[Len(str)] = " "
    THEN rstrip(SubSeq(str, 1, Len(str) - 1)) ELSE str
strip(str) == lstrip(rstrip(str))

\* str.rsplit("@", 1): the parts before and after the last "@"; a string
\* without "@" makes the unpacking into two names raise ValueError
rsplit(str) ==
    LET at == {k \in DOMAIN str : str[k] = "@"}
    IN  IF at = {} THEN [raised |-> "ValueError"]
        ELSE LET last == CHOOSE k \in at : \A j \in at : j <= k
             IN  [raised |-> None,
                  email_name |-> SubSeq(str, 1, last - 1),
                  domain_part |-> SubSeq(str, last + 1, Len(str))]

\* normalize_email that changes nothing
normalize_email_verbatim(email) == IF email = NoEmail THEN <<>> ELSE email

\* normalize_email that lower-cases the whole address
normalize_email_lower(email) ==
    LET str == IF email = NoEmail THEN <<>> ELSE email
        parts == rsplit(strip(str))
    IN  IF parts.raised # None THEN str
        ELSE lower(parts.email_name) \o <<"@">> \o lower(parts.domain_part)

\* BaseUserManager.normalize_email: email = email or ""; the domain part of
\* the stripped address is lower-cased, an address without "@" is returned
\* as it came
normalize_email(email) ==
    LET str == IF email = NoEmail THEN <<>> ELSE email
        parts == rsplit(strip(str))
    IN  IF parts.raised # None THEN str
        ELSE parts.email_name \o <<"@">> \o lower(parts.domain_part)

\* user.set_password(password): the hash of the password is stored, no
\* password makes the account one nobody can log in to
make_password(password) ==
    IF password = None THEN "!" ELSE <<"pbkdf2", password>>

\* the id the User table hands out next (no user is ever deleted)
user_seq(rows) == Cardinality(DOMAIN rows) + 1

\* an e-mail column without unique=True
NotUnique(rows, email, pk) == FALSE

\* email = models.EmailField(unique=True): the INSERT or UPDATE of a row
\* with the e-mail address of another row raises IntegrityError
Taken(rows, email, pk) ==
    \E u \in DOMAIN rows : u # pk /\ rows[u].email = email

\* create_user that saves before it looks at the address
create_user_unchecked(rows, email, password, extra_fields) ==
    LET user == [email |-> normalize_email(email),
                 password |-> make_password(password),
                 name |-> Get(extra_fields, "name", ""),
                 is_staff |-> FALSE]
    IN  IF Taken(rows, user.email, 0)
        THEN [User |-> rows, raised |-> "IntegrityError"]
        ELSE [User |-> rows @@ (user_seq(rows) :> user),
              raised |-> IF email = NoEmail \/ email = <<>> THEN "ValueError"
                         ELSE None]

\* UserManager.create_user(email, password=None, **extra_fields): the table
\* as the call leaves it, and the exception that ended it, if any
create_user(rows, email, password, extra_fields) ==
    IF email = NoEmail \/ email = <<>>
    THEN [User |-> rows, raised |-> "ValueError"]
    ELSE LET user == [email |-> normalize_email(email),
                      password |-> make_password(password),
                      name |-> Get(extra_fields, "name", ""),
                      is_staff |-> FALSE]
         IN  IF Taken(rows, user.email, 0)
             THEN [User |-> rows, raised |-> "IntegrityError"]
             ELSE [User |-> rows @@ (user_seq(rows) :> user), raised |-> None]

\* ------------------------------------------------------------------ views
\* permission_classes = [IsAuthenticated] with TokenAuthentication: the
\* request carries the token of an existing user.
\* permission_classes = [AllowAny]
AllowAny(user) == TRUE

IsAuthenticated(user) == user \in DOMAIN User

\* int(str_id): the value of a decimal token; any other token raises ValueError
IsInt(str_id) == str_id \in {"0", "1", "2", "3"}
int(str_id) == CASE str_id = "0" -> 0
                 [] str_id = "1" -> 1
                 [] str_id = "2" -> 2
                 [] str_id = "3" -> 3

\* RecipeViewSet._params_to_ints: [int(str_id) for str_id in qs.split(',')]
params_to_ints(qs) ==
    IF \A k \in DOMAIN qs : IsInt(qs[k])
    THEN [raised |-> None, ids |-> {int(qs[k]) : k \in DOMAIN qs}]
    ELSE [raised |-> "ValueError", ids |-> {}]

RECURSIVE Repeat(_, _)
Repeat(x, n) == IF n <= 0 THEN <<>> ELSE <<x>> \o Repeat(x, n - 1)

\* order_by('id'): ids ascending
RECURSIVE OrderById(_, _)
OrderById(S, mult) ==
    IF S = {} THEN <<>>
    ELSE LET m == CHOOSE i \in S : \A j \in S : i <= j
         IN  Repeat(m, mult[m]) \o OrderById(S \ {m}, mult)

\* order_by('-id'): the rows of the join, ids descending; mult[i] is the
\* number of joined rows recipe i contributes
RECURSIVE OrderByIdDesc(_, _)
OrderByIdDesc(S, mult) ==
    IF S = {} THEN <<>>
    ELSE LET m == CHOOSE i \in S : \A j \in S : j <= i
         IN  Repeat(m, mult[m]) \o OrderByIdDesc(S \ {m}, mult)

\* the queryset without .distinct(): the rows of the join as they are
all_rows(rows) == rows

\* .distinct(): every row once, order kept
RECURSIVE distinct(_)
distinct(rows) ==
    IF rows = <<>> THEN <<>>
    ELSE LET rest == distinct(Tail(rows))
         IN  <<Head(rows)>> \o SelectSeq(rest, LAMBDA x : x # Head(rows))

ToSet(rows) == {rows[k] : k \in DOMAIN rows}

\* get_queryset without filter(user=self.request.user)
RecipeQuerysetAllUsers(user, query) ==
    LET tags == Get(query, "tags", <<>>)
        ingredients == Get(query, "ingredients", <<>>)
        tag_ids == params_to_ints(tags)
        ingredient_ids == params_to_ints(ingredients)
        tmult(r) == IF tags # <<>>
                    THEN Cardinality(Recipe[r].tags \cap tag_ids.ids) ELSE 1
        imult(r) == IF ingredients # <<>>
                    THEN Cardinality(Recipe[r].ingredients \cap ingredient_ids.ids)
                    ELSE 1
        mult == [r \in DOMAIN Recipe |-> tmult(r) * imult(r)]
    IN  IF tags # <<>> /\ tag_ids.raised # None
        THEN [raised |-> tag_ids.raised, rows |-> <<>>]
        ELSE IF ingredients # <<>> /\ ingredient_ids.raised # None
        THEN [raised |-> ingredient_ids.raised, rows |-> <<>>]
        ELSE [raised |-> None,
              rows |-> distinct(OrderByIdDesc(DOMAIN Recipe, mult))]

\* get_queryset with `elif ingredients:`: the ingredient filter is skipped
\* when there is a tag filter
RecipeQuerysetElif(user, query) ==
    LET tags == Get(query, "tags", <<>>)
        ingredients == IF tags # <<>> THEN <<>> ELSE Get(query, "ingredients", <<>>)
        tag_ids == params_to_ints(tags)
        ingredient_ids == params_to_ints(ingredients)
        tmult(r) == IF tags # <<>>
                    THEN Cardinality(Recipe[r].tags \cap tag_ids.ids) ELSE 1
        imult(r) == IF ingredients # <<>>
                    THEN Cardinality(Recipe[r].ingredients \cap ingredient_ids.ids)
                    ELSE 1
        mult == [r \in DOMAIN Recipe |->
                    IF Recipe[r].user = user THEN tmult(r) * imult(r) ELSE 0]
    IN  IF tags # <<>> /\ tag_ids.raised # None
        THEN [raised |-> tag_ids.raised, rows |-> <<>>]
        ELSE IF ingredients # <<>> /\ ingredient_ids.raised # None
        THEN [raised |-> ingredient_ids.raised, rows |-> <<>>]
        ELSE [raised |-> None,
              rows |-> distinct(OrderByIdDesc(DOMAIN Recipe, mult))]

\* RecipeViewSet.get_queryset for request.user = user and the query string
RecipeQueryset(user, query) ==
    LET tags == Get(query, "tags", <<>>)
        ingredients == Get(query, "ingredients", <<>>)
        tag_ids == params_to_ints(tags)
        ingredient_ids == params_to_ints(ingredients)
        \* rows of the join recipe x recipe_tags x recipe_ingredients
        tmult(r) == IF tags # <<>>
                    THEN Cardinality(Recipe[r].tags \cap tag_ids.ids) ELSE 1
        imult(r) == IF ingredients # <<>>
                    THEN Cardinality(Recipe[r].ingredients \cap ingredient_ids.ids)
                    ELSE 1
        mult == [r \in DOMAIN Recipe |->
                    IF Recipe[r].user = user THEN tmult(r) * imult(r) ELSE 0]
    IN  IF tags # <<>> /\ tag_ids.raised # None
        THEN [raised |-> tag_ids.raised, rows |-> <<>>]
        ELSE IF ingredients # <<>> /\ ingredient_ids.raised # None
        THEN [raised |-> ingredient_ids.raised, rows |-> <<>>]
        ELSE [raised |-> None,
              rows |-> distinct(OrderByIdDesc(DOMAIN Recipe, mult))]

\* BaseRecipeAttrViewSet.get_queryset over the rows of Tag or Ingredient;
\* field is the Recipe relation ("tags" or "ingredients") that references them
AttrQueryset(rows, field, user, query) ==
    LET param == Get(query, "assigned_only", "0")
        assigned_only == int(param) # 0
        \* recipe__isnull=False: one joined row per recipe referencing the entity
        refs(i) == Cardinality({r \in DOMAIN Recipe : i \in Recipe[r][field]})
        \* the rows of the query each entity contributes
        mult == [i \in DOMAIN rows |->
                    IF rows[i].user # user THEN 0
                    ELSE IF assigned_only THEN refs(i) ELSE 1]
    IN  IF ~IsInt(param)
        THEN [raised |-> "ValueError", ids |-> {}, mult |-> [i \in {} |-> 0]]
        ELSE [raised |-> None,
              ids |-> {i \in DOMAIN rows : mult[i] > 0},
              mult |-> mult]

\* the place of a name in the lexicographic order of the names
ord(name) == CHOOSE k \in DOMAIN Alphabet : Alphabet[k] = name

\* order_by('-name'): the orders of the ids by descending name; rows of equal
\* name come in an order the database chooses
OrdersByNameDesc(rows, ids) ==
    {o \in [1..Cardinality(ids) -> ids] :
        /\ \A j, k \in DOMAIN o : j # k => o[j] # o[k]
        /\ \A j, k \in DOMAIN o : j < k => ord(rows[o[j]].name) >= ord(rows[o[k]].name)}

\* the rows of a query: every id of the order as often as mult says
RECURSIVE Expand(_, _)
Expand(order, mult) ==
    IF order = <<>> THEN <<>>
    ELSE Repeat(Head(order), mult[Head(order)]) \o Expand(Tail(order), mult)

\* ---------------------------------------------------------------- responses
\* data is the list a listing returns (the ids of its rows, in order)
Response(status) == [status |-> status, raised |-> None, data |-> <<>>]
\* an exception no handler catches: the framework answers 500
Unhandled(exc) == [status |-> 500, raised |-> exc, data |-> <<>>]
\* ListModelMixin.list: 200 with the serialized queryset
Listing(rows) == [status |-> HTTP_200_OK, raised |-> None, data |-> rows]

Request(op, user, pk, data, query) ==
    [op |-> op, user |-> user, pk |-> pk, data |-> data, query |-> query]

\* no request in flight, and no response yet; collection routes have pk = 0
NoRequest == Request(None, None, 0, EmptyDict, EmptyDict)
NoResponse == [status |-> 0, raised |-> None, data |-> <<>>]

\* the request is answered without any write
Answer(res) ==
    /\ response' = res
    /\ UNCHANGED store

\* ModelSerializer.is_valid: keys that are no writable field are dropped; a
\* missing required field is an error unless the update is partial
\* the request body taken as it came
initial_data(fields, data) == data

validated_data(fields, data) == Restrict(data, fields)
is_valid(fields, required, data, partial) ==
    partial \/ required \subseteq DOMAIN validated_data(fields, data)

\* --------------------------------------------------- RecipeSerializer.create
NoTags == [rows |-> Tag, seq |-> tag_seq, attached |-> {}, raised |-> None]
NoIngredients ==
    [rows |-> Ingredient, seq |-> ingredient_seq, attached |-> {}, raised |-> None]

\* The outcome of serializer.save(): the tables as the call leaves them, and
\* the exception that ended it, if any. Nothing is rolled back.
create(data, auth_user) ==
    LET tags == Get(data, "tags", <<>>)
        ingredients == Get(data, "ingredients", <<>>)
        recipe == [user |-> data["user"], title |-> data["title"], image |-> None,
                   tags |-> {}, ingredients |-> {}]
        t == get_or_create_tags(tags, auth_user, NoTags)
        i == IF t.raised # None
             THEN [NoIngredients EXCEPT !.raised = t.raised]
             ELSE get_or_create_ingredients(ingredients, auth_user, NoIngredients)
    IN  [Recipe |-> Recipe @@ (recipe_seq :>
                      [recipe EXCEPT !.tags = t.attached,
                                     !.ingredients = i.attached]),
         recipe_seq |-> recipe_seq + 1,
         Tag |-> t.rows, tag_seq |-> t.seq,
         Ingredient |-> i.rows, ingredient_seq |-> i.seq,
         raised |-> i.raised]

\* --------------------------------------------------- RecipeSerializer.update
\* update with the lists defaulting to [] as in create: a missing key clears
update_default_empty(pk, data, auth_user) ==
    LET instance == Recipe[pk]
        t == get_or_create_tags(Get(data, "tags", <<>>), auth_user, NoTags)
        i == IF t.raised # None
             THEN [NoIngredients EXCEPT !.attached = instance.ingredients,
                                        !.raised = t.raised]
             ELSE get_or_create_ingredients(Get(data, "ingredients", <<>>),
                                            auth_user, NoIngredients)
        attrs == Without(data, {"tags", "ingredients"})
        saved == [f \in DOMAIN instance |->
                    IF f = "tags" THEN t.attached
                    ELSE IF f = "ingredients" THEN i.attached
                    ELSE IF i.raised = None /\ f \in DOMAIN attrs THEN attrs[f]
                    ELSE instance[f]]
    IN  [Recipe |-> [Recipe EXCEPT ![pk] = saved],
         recipe_seq |-> recipe_seq,
         Tag |-> t.rows, tag_seq |-> t.seq,
         Ingredient |-> i.rows, ingredient_seq |-> i.seq,
         raised |-> i.raised]

\* update that sets and saves the scalar fields before it reconciles the lists
update_scalars_first(pk, data, auth_user) ==
    LET instance == Recipe[pk]
        t == IF "tags" \in DOMAIN data
             THEN get_or_create_tags(data["tags"], auth_user, NoTags)
             ELSE [NoTags EXCEPT !.attached = instance.tags]
        i == IF t.raised # None
             THEN [NoIngredients EXCEPT !.attached = instance.ingredients,
                                        !.raised = t.raised]
             ELSE IF "ingredients" \in DOMAIN data
             THEN get_or_create_ingredients(data["ingredients"], auth_user,
                                            NoIngredients)
             ELSE [NoIngredients EXCEPT !.attached = instance.ingredients]
        attrs == Without(data, {"tags", "ingredients"})
        saved == [f \in DOMAIN instance |->
                    IF f = "tags" THEN t.attached
                    ELSE IF f = "ingredients" THEN i.attached
                    ELSE IF f \in DOMAIN attrs THEN attrs[f]
                    ELSE instance[f]]
    IN  [Recipe |-> [Recipe EXCEPT ![pk] = saved],
         recipe_seq |-> recipe_seq,
         Tag |-> t.rows, tag_seq |-> t.seq,
         Ingredient |-> i.rows, ingredient_seq |-> i.seq,
         raised |-> i.raised]

update(pk, data, auth_user) ==
    LET instance == Recipe[pk]
        t == IF "tags" \in DOMAIN data
             THEN get_or_create_tags(data["tags"], auth_user, NoTags)
             ELSE [NoTags EXCEPT !.attached = instance.tags]
        i == IF t.raised # None
             THEN [NoIngredients EXCEPT !.attached = instance.ingredients,
                                        !.raised = t.raised]
             ELSE IF "ingredients" \in DOMAIN data
             THEN get_or_create_ingredients(data["ingredients"], auth_user,
                                            NoIngredients)
             ELSE [NoIngredients EXCEPT !.attached = instance.ingredients]
        attrs == Without(data, {"tags", "ingredients"})
        saved == [f \in DOMAIN instance |->
                    IF f = "tags" THEN t.attached
                    ELSE IF f = "ingredients" THEN i.attached
                    ELSE IF i.raised = None /\ f \in DOMAIN attrs THEN attrs[f]
                    ELSE instance[f]]
    IN  [Recipe |-> [Recipe EXCEPT ![pk] = saved],
         recipe_seq |-> recipe_seq,
         Tag |-> t.rows, tag_seq |-> t.seq,
         Ingredient |-> i.rows, ingredient_seq |-> i.seq,
         raised |-> i.raised]

\* serializer.save() inside transaction.atomic(): a call that raised leaves
\* the tables as it found them
save_atomic(out) ==
    IF out.raised # None
    THEN UNCHANGED <<User, Tag, Ingredient, Recipe, tag_seq, ingredient_seq,
                     recipe_seq>>
    ELSE /\ Recipe' = out.Recipe
         /\ recipe_seq' = out.recipe_seq
         /\ Tag' = out.Tag
         /\ tag_seq' = out.tag_seq
         /\ Ingredient' = out.Ingredient
         /\ ingredient_seq' = out.ingredient_seq
         /\ UNCHANGED User

\* the tables after serializer.save() returned or raised
Save(out) ==
    /\ Recipe' = out.Recipe
    /\ recipe_seq' = out.recipe_seq
    /\ Tag' = out.Tag
    /\ tag_seq' = out.tag_seq
    /\ Ingredient' = out.Ingredient
    /\ ingredient_seq' = out.ingredient_seq
    /\ UNCHANGED User

\* ------------------------------------------------------------ RecipeViewSet
\* POST /recipes/
RecipeCreate(user, data) ==
    LET fields == RecipeDetailSerializerFields
    IN  IF ~IsAuthenticated(user)
        THEN Answer(Response(HTTP_401_UNAUTHORIZED))
        ELSE IF ~is_valid(fields, RecipeRequiredFields, data, FALSE)
        THEN Answer(Response(HTTP_400_BAD_REQUEST))
        ELSE LET \* perform_create: serializer.save(user=self.request.user)
                 out == create(("user" :> user) @@ validated_data(fields, data),
                               user)
             IN  /\ Save(out)
                 /\ response' = IF out.raised # None THEN Unhandled(out.raised)
                                ELSE Response(HTTP_201_CREATED)

\* GenericAPIView.get_object over RecipeViewSet.get_queryset
\* PUT (partial = FALSE) and PATCH (partial = TRUE) /recipes/{pk}/
RecipeUpdate(user, pk, data, partial, query) ==
    LET fields == RecipeDetailSerializerFields
        queryset == RecipeQueryset(user, query)
    IN  IF ~IsAuthenticated(user)
        THEN Answer(Response(HTTP_401_UNAUTHORIZED))
        ELSE IF queryset.raised # None
        THEN Answer(Unhandled(queryset.raised))
        ELSE IF pk \notin ToSet(queryset.rows)
        THEN Answer(Response(HTTP_404_NOT_FOUND))
        ELSE IF ~is_valid(fields, RecipeRequiredFields, data, partial)
        THEN Answer(Response(HTTP_400_BAD_REQUEST))
        ELSE LET out == update(pk, validated_data(fields, data), user)
             IN  /\ Save(out)
                 /\ response' = IF out.raised # None THEN Unhandled(out.raised)
                                ELSE Response(HTTP_200_OK)

\* GET /recipes/{pk}/
RecipeRetrieve(user, pk, query) ==
    LET queryset == RecipeQueryset(user, query)
    IN  IF ~IsAuthenticated(user)
        THEN Answer(Response(HTTP_401_UNAUTHORIZED))
        ELSE IF queryset.raised # None
        THEN Answer(Unhandled(queryset.raised))
        ELSE IF pk \notin ToSet(queryset.rows)
        THEN Answer(Response(HTTP_404_NOT_FOUND))
        ELSE Answer(Response(HTTP_200_OK))

\* a delete that takes the tags and the ingredients of the recipe with it
RecipeDestroyCascade(user, pk, query) ==
    LET queryset == RecipeQueryset(user, query)
    IN  IF ~IsAuthenticated(user)
        THEN Answer(Response(HTTP_401_UNAUTHORIZED))
        ELSE IF queryset.raised # None
        THEN Answer(Unhandled(queryset.raised))
        ELSE IF pk \notin ToSet(queryset.rows)
        THEN Answer(Response(HTTP_404_NOT_FOUND))
        ELSE /\ Recipe' = [r \in (DOMAIN Recipe) \ {pk} |->
                            [Recipe[r] EXCEPT
                                !.tags = @ \ Recipe[pk].tags,
                                !.ingredients = @ \ Recipe[pk].ingredients]]
             /\ Tag' = [t \in (DOMAIN Tag) \ Recipe[pk].tags |-> Tag[t]]
             /\ Ingredient' = [i \in (DOMAIN Ingredient) \ Recipe[pk].ingredients |->
                                Ingredient[i]]
             /\ response' = Response(HTTP_204_NO_CONTENT)
             /\ UNCHANGED <<User, tag_seq, ingredient_seq, recipe_seq>>

\* DELETE /recipes/{pk}/: the row and its membership rows go, tags and
\* ingredients stay
RecipeDestroy(user, pk, query) ==
    LET queryset == RecipeQueryset(user, query)
    IN  IF ~IsAuthenticated(user)
        THEN Answer(Response(HTTP_401_UNAUTHORIZED))
        ELSE IF queryset.raised # None
        THEN Answer(Unhandled(queryset.raised))
        ELSE IF pk \notin ToSet(queryset.rows)
        THEN Answer(Response(HTTP_404_NOT_FOUND))
        ELSE /\ Recipe' = [r \in (DOMAIN Recipe) \ {pk} |-> Recipe[r]]
             /\ response' = Response(HTTP_204_NO_CONTENT)
             /\ UNCHANGED <<User, Tag, Ingredient, tag_seq, ingredient_seq,
                            recipe_seq>>

\* POST /recipes/{pk}/upload-image/; data["image"] is a valid image or not
RecipeUploadImage(user, pk, data, query) ==
    LET queryset == RecipeQueryset(user, query)
        fields == RecipeImageSerializerFields
    IN  IF ~IsAuthenticated(user)
        THEN Answer(Response(HTTP_401_UNAUTHORIZED))
        ELSE IF queryset.raised # None
        THEN Answer(Unhandled(queryset.raised))
        ELSE IF pk \notin ToSet(queryset.rows)
        THEN Answer(Response(HTTP_404_NOT_FOUND))
        ELSE IF Get(validated_data(fields, data), "image", "invalid") = "invalid"
        THEN Answer(Response(HTTP_400_BAD_REQUEST))
        ELSE /\ Recipe' = [Recipe EXCEPT ![pk].image = data["image"]]
             /\ response' = Response(HTTP_200_OK)
             /\ UNCHANGED <<User, Tag, Ingredient, tag_seq, ingredient_seq,
                            recipe_seq>>

\* GET /recipes/
RecipeList(user, query) ==
    LET queryset == RecipeQueryset(user, query)
    IN  IF ~IsAuthenticated(user)
        THEN Answer(Response(HTTP_401_UNAUTHORIZED))
        ELSE IF queryset.raised # None
        THEN Answer(Unhandled(queryset.raised))
        ELSE Answer(Listing(queryset.rows))

\* ---------------------------------------------------- BaseRecipeAttrViewSet
\* ModelSerializer.update: setattr for every validated attribute, then save
SetAttrs(instance, attrs) ==
    [f \in DOMAIN instance |-> IF f \in DOMAIN attrs THEN attrs[f] ELSE instance[f]]

\* the membership rows of a deleted tag / ingredient go with it
Detach(field, pk) ==
    [r \in DOMAIN Recipe |-> [Recipe[r] EXCEPT ![field] = @ \ {pk}]]

\* PUT-as-create: an update of an id that does not exist inserts the row
TagUpdateOrCreate(user, pk, data, partial, query) ==
    LET queryset == AttrQueryset(Tag, "tags", user, query)
        fields == TagSerializerFields
    IN  IF ~IsAuthenticated(user)
        THEN Answer(Response(HTTP_401_UNAUTHORIZED))
        ELSE IF queryset.raised # None
        THEN Answer(Unhandled(queryset.raised))
        ELSE IF pk \notin DOMAIN Tag
        THEN /\ Tag' = Tag @@ (pk :> [user |-> user, name |-> Get(data, "name", "a")])
             /\ response' = Response(HTTP_201_CREATED)
             /\ UNCHANGED <<User, Ingredient, Recipe, tag_seq, ingredient_seq,
                            recipe_seq>>
        ELSE IF pk \notin queryset.ids
        THEN Answer(Response(HTTP_404_NOT_FOUND))
        ELSE IF ~is_valid(fields, fields, data, partial)
        THEN Answer(Response(HTTP_400_BAD_REQUEST))
        ELSE /\ Tag' = [Tag EXCEPT ![pk] = SetAttrs(@, validated_data(fields, data))]
             /\ response' = Response(HTTP_200_OK)
             /\ UNCHANGED <<User, Ingredient, Recipe, tag_seq, ingredient_seq,
                            recipe_seq>>

\* PUT / PATCH /tags/{pk}/
TagUpdate(user, pk, data, partial, query) ==
    LET queryset == AttrQueryset(Tag, "tags", user, query)
        fields == TagSerializerFields
    IN  IF ~IsAuthenticated(user)
        THEN Answer(Response(HTTP_401_UNAUTHORIZED))
        ELSE IF queryset.raised # None
        THEN Answer(Unhandled(queryset.raised))
        ELSE IF pk \notin queryset.ids
        THEN Answer(Response(HTTP_404_NOT_FOUND))
        ELSE IF ~is_valid(fields, fields, data, partial)
        THEN Answer(Response(HTTP_400_BAD_REQUEST))
        ELSE /\ Tag' = [Tag EXCEPT ![pk] = SetAttrs(@, validated_data(fields, data))]
             /\ response' = Response(HTTP_200_OK)
             /\ UNCHANGED <<User, Ingredient, Recipe, tag_seq, ingredient_seq,
                            recipe_seq>>

\* a delete that leaves the membership rows of the tag behind
TagDestroyRowOnly(user, pk, query) ==
    LET queryset == AttrQueryset(Tag, "tags", user, query)
    IN  IF ~IsAuthenticated(user)
        THEN Answer(Response(HTTP_401_UNAUTHORIZED))
        ELSE IF queryset.raised # None
        THEN Answer(Unhandled(queryset.raised))
        ELSE IF pk \notin queryset.ids
        THEN Answer(Response(HTTP_404_NOT_FOUND))
        ELSE /\ Tag' = [t \in (DOMAIN Tag) \ {pk} |-> Tag[t]]
             /\ response' = Response(HTTP_204_NO_CONTENT)
             /\ UNCHANGED <<User, Ingredient, Recipe, tag_seq, ingredient_seq,
                            recipe_seq>>

\* DELETE /tags/{pk}/
TagDestroy(user, pk, query) ==
    LET queryset == AttrQueryset(Tag, "tags", user, query)
    IN  IF ~IsAuthenticated(user)
        THEN Answer(Response(HTTP_401_UNAUTHORIZED))
        ELSE IF queryset.raised # None
        THEN Answer(Unhandled(queryset.raised))
        ELSE IF pk \notin queryset.ids
        THEN Answer(Response(HTTP_404_NOT_FOUND))
        ELSE /\ Tag' = [t \in (DOMAIN Tag) \ {pk} |-> Tag[t]]
             /\ Recipe' = Detach("tags", pk)
             /\ response' = Response(HTTP_204_NO_CONTENT)
             /\ UNCHANGED <<User, Ingredient, tag_seq, ingredient_seq, recipe_seq>>

\* PUT / PATCH /ingredients/{pk}/
IngredientUpdate(user, pk, data, partial, query) ==
    LET queryset == AttrQueryset(Ingredient, "ingredients", user, query)
        fields == IngredientSerializerFields
    IN  IF ~IsAuthenticated(user)
        THEN Answer(Response(HTTP_401_UNAUTHORIZED))
        ELSE IF queryset.raised # None
        THEN Answer(Unhandled(queryset.raised))
        ELSE IF pk \notin queryset.ids
        THEN Answer(Response(HTTP_404_NOT_FOUND))
        ELSE IF ~is_valid(fields, fields, data, partial)
        THEN Answer(Response(HTTP_400_BAD_REQUEST))
        ELSE /\ Ingredient' = [Ingredient EXCEPT
                                 ![pk] = SetAttrs(@, validated_data(fields, data))]
             /\ response' = Response(HTTP_200_OK)
             /\ UNCHANGED <<User, Tag, Recipe, tag_seq, ingredient_seq, recipe_seq>>

\* DELETE /ingredients/{pk}/
IngredientDestroy(user, pk, query) ==
    LET queryset == AttrQueryset(Ingredient, "ingredients", user, query)
    IN  IF ~IsAuthenticated(user)
        THEN Answer(Response(HTTP_401_UNAUTHORIZED))
        ELSE IF queryset.raised # None
        THEN Answer(Unhandled(queryset.raised))
        ELSE IF pk \notin queryset.ids
        THEN Answer(Response(HTTP_404_NOT_FOUND))
        ELSE /\ Ingredient' = [i \in (DOMAIN Ingredient) \ {pk} |-> Ingredient[i]]
             /\ Recipe' = Detach("ingredients", pk)
             /\ response' = Response(HTTP_204_NO_CONTENT)
             /\ UNCHANGED <<User, Tag, tag_seq, ingredient_seq, recipe_seq>>

\* GET /tags/{pk}/ and GET /ingredients/{pk}/: the viewset has no retrieve
\* action (Destroy, Update and List mixins only), so the route has no GET
AttrRetrieve(user) ==
    IF ~IsAuthenticated(user)
        THEN Answer(Response(HTTP_401_UNAUTHORIZED))
        ELSE Answer(Response(HTTP_405_METHOD_NOT_ALLOWED))

\* the listing of a queryset without .distinct()
AttrListAllRows(rows, field, user, query) ==
    LET queryset == AttrQueryset(rows, field, user, query)
    IN  IF ~IsAuthenticated(user)
        THEN Answer(Response(HTTP_401_UNAUTHORIZED))
        ELSE IF queryset.raised # None
        THEN Answer(Unhandled(queryset.raised))
        ELSE \E order \in OrdersByNameDesc(rows, queryset.ids) :
                Answer(Listing(Expand(order, queryset.mult)))

\* GET /tags/ and GET /ingredients/: the queryset ordered by name, distinct
AttrList(rows, field, user, query) ==
    LET queryset == AttrQueryset(rows, field, user, query)
    IN  IF ~IsAuthenticated(user)
        THEN Answer(Response(HTTP_401_UNAUTHORIZED))
        ELSE IF queryset.raised # None
        THEN Answer(Unhandled(queryset.raised))
        ELSE \E order \in OrdersByNameDesc(rows, queryset.ids) :
                Answer(Listing(distinct(Expand(order, queryset.mult))))

\* ------------------------------------------------------------ ManageUserView
\* GET /users/me/
UserMeRetrieve(user) ==
    IF ~IsAuthenticated(user)
        THEN Answer(Response(HTTP_401_UNAUTHORIZED))
        ELSE Answer(Response(HTTP_200_OK))

\* UserSerializer: fields = ["email", "password", "name"], all required
UserSerializerFields == {"email", "password", "name"}
min_length == 5

\* EmailValidator: one "@" with a user part and a domain part around it and
\* no white space (a letter stands for a well-formed part)
EmailValidator(value) ==
    /\ Cardinality({k \in DOMAIN value : value[k] = "@"}) = 1
    /\ \A k \in DOMAIN value : value[k] # " "
    /\ value[1] # "@"
    /\ value[Len(value)] # "@"

\* CharField.to_internal_value of the e-mail field: the value stripped
UserValidatedData(data) ==
    [f \in DOMAIN data \cap UserSerializerFields |->
        IF f = "email" THEN strip(data[f]) ELSE data[f]]

\* UserSerializer.is_valid: required fields (unless partial), a well-formed
\* address that no other row has (UniqueValidator: an exact match), a
\* password of min_length characters; instance is 0 on create
UserIsValid(data, instance, partial) ==
    LET attrs == UserValidatedData(data)
    IN  /\ partial \/ UserSerializerFields \subseteq DOMAIN attrs
        /\ "email" \in DOMAIN attrs =>
              /\ attrs["email"] # <<>>
              /\ EmailValidator(attrs["email"])
              /\ ~Taken(User, attrs["email"], instance)
        /\ "password" \in DOMAIN attrs => Len(attrs["password"]) >= min_length
        /\ "name" \in DOMAIN attrs => attrs["name"] # ""

\* POST /users/ : CreateUserView over UserSerializer.create
UserCreate(data) ==
    IF ~UserIsValid(data, 0, FALSE)
    THEN Answer(Response(HTTP_400_BAD_REQUEST))
    ELSE LET attrs == UserValidatedData(data)
             out == create_user(User, attrs["email"], attrs["password"],
                                Restrict(attrs, {"name"}))
         IN  /\ User' = out.User
             /\ response' = IF out.raised # None THEN Unhandled(out.raised)
                            ELSE Response(HTTP_201_CREATED)
             /\ UNCHANGED <<Tag, Ingredient, Recipe, tag_seq, ingredient_seq,
                            recipe_seq>>

\* UserSerializer.update with the address normalized as create_user does
update_user_normalized(instance, validate_data) ==
    LET password == Get(validate_data, "password", None)
        attrs == [f \in DOMAIN validate_data \ {"password"} |->
                    IF f = "email" THEN normalize_email(validate_data[f])
                    ELSE validate_data[f]]
        user == SetAttrs(instance, attrs)
    IN  IF password # None /\ password # ""
        THEN SetAttrs(user, "password" :> make_password(password))
        ELSE user

\* UserSerializer.update: the password is popped, ModelSerializer.update sets
\* the other attributes as they came, a password that was given is hashed
update_user(instance, validate_data) ==
    LET password == Get(validate_data, "password", None)
        user == SetAttrs(instance, Without(validate_data, {"password"}))
    IN  IF password # None /\ password # ""
        THEN SetAttrs(user, "password" :> make_password(password))
        ELSE user

\* PUT (partial = FALSE) and PATCH (partial = TRUE) /users/me/
UserMeUpdate(user, data, partial) ==
    IF ~IsAuthenticated(user)
        THEN Answer(Response(HTTP_401_UNAUTHORIZED))
        ELSE IF ~UserIsValid(data, user, partial)
        THEN Answer(Response(HTTP_400_BAD_REQUEST))
        ELSE /\ User' = [User EXCEPT ![user] =
                            update_user(@, UserValidatedData(data))]
             /\ response' = Response(HTTP_200_OK)
             /\ UNCHANGED <<Tag, Ingredient, Recipe, tag_seq, ingredient_seq,
                            recipe_seq>>

\* ------------------------------------------------------------------- inputs
Clients == Users \cup {Anonymous}
RecipeIds == 1..MaxRecipeId
TagIds == 1..MaxTagId
IngredientIds == 1..MaxIngredientId

\* Request bodies: scalar fields with or without a `user` key, ...
ScalarPayloads ==
    {Field("title", t) @@ Field("user", u) :
        t \in Optional(Titles), u \in Optional(Users)}
\* ... a tag list or an ingredient list, with or without a title
ListPayloads(titles) ==
    {Field("title", t) @@ Field("tags", l) :
        t \in titles, l \in {{x} : x \in NameLists(MaxLen)}}
    \cup {Field("title", t) @@ Field("ingredients", l) :
            t \in titles, l \in {{x} : x \in NameLists(MaxLen)}}
CreatePayloads == ScalarPayloads \cup ListPayloads({{"t1"}})
\* ... or both lists, of one name each
BothListPayloads ==
    {Field("tags", {<<t>>}) @@ Field("ingredients", {<<i>>}) :
        t \in Names, i \in Names}
UpdatePayloads ==
    ScalarPayloads \cup ListPayloads(Optional({"t2"})) \cup BothListPayloads
AttrPayloads ==
    {Field("name", n) @@ Field("user", u) :
        n \in Optional(Names), u \in Optional(Users)}
NamePayloads == {Field("name", n) : n \in Optional(Names)}
\* an upload without a file, or with a file that is no image
ImagePayloads == {Field("image", i) : i \in Optional({"invalid"})}
ProfilePayloads == {Field("name", n) : n \in Optional(ProfileNames)}
\* the bodies of POST /users/ and PUT, PATCH /users/me/
UserPayloads ==
    {Field("email", e) @@ Field("password", p) @@ Field("name", n) :
        e \in Optional(Emails), p \in Optional(Passwords),
        n \in Optional(ProfileNames)}
UserIds == 1..MaxUserId
\* the user of a request without a valid token, where users are ids
AnonymousUser == 0

\* Query strings: one filter at a time
RecipeQueries ==
    {Field("tags", a) : a \in Optional(QueryStrings)}
    \cup {Field("ingredients", a) : a \in Optional(QueryStrings)}
AttrQueries == {Field("assigned_only", a) : a \in Optional({"1", "x"})}

RecipeWrites == {"recipe-create", "recipe-update", "recipe-partial-update"}
RecipeDetails == {"recipe-update", "recipe-partial-update", "recipe-retrieve",
                  "recipe-destroy", "recipe-upload-image"}
TagDetails == {"tag-update", "tag-partial-update", "tag-retrieve", "tag-destroy"}
IngredientDetails == {"ingredient-update", "ingredient-partial-update",
                      "ingredient-retrieve", "ingredient-destroy"}
ProfileOps == {"user-me-retrieve", "user-me-partial-update"}

\* The requests of each route: those of the authenticated clients, and one
\* without a credential (its body plays no part)
Route(op, requests) ==
    requests \cup {Request(op, Anonymous, r.pk, EmptyDict, EmptyDict) : r \in requests}

Requests(op) ==
    CASE op = "recipe-create" ->
            Route(op, {Request(op, u, 0, d, EmptyDict) :
                        u \in Users, d \in CreatePayloads})
      [] op = "recipe-partial-update" ->
            Route(op, {Request(op, u, pk, d, EmptyDict) :
                        u \in Users, pk \in RecipeIds, d \in UpdatePayloads})
      [] op = "recipe-update" ->
            Route(op, {Request(op, u, pk, d, EmptyDict) :
                        u \in Users, pk \in RecipeIds, d \in ScalarPayloads})
      [] op = "recipe-retrieve" ->
            Route(op, {Request(op, u, pk, EmptyDict, EmptyDict) :
                        u \in Users, pk \in RecipeIds})
      [] op = "recipe-destroy" ->
            Route(op, {Request(op, u, pk, EmptyDict, q) :
                        u \in Users, pk \in RecipeIds, q \in RecipeQueries})
      [] op = "recipe-upload-image" ->
            Route(op, {Request(op, u, pk, d, EmptyDict) :
                        u \in Users, pk \in RecipeIds, d \in ImagePayloads})
      [] op = "tag-partial-update" ->
            Route(op, {Request(op, u, pk, d, EmptyDict) :
                        u \in Users, pk \in TagIds, d \in AttrPayloads})
      [] op = "tag-update" ->
            Route(op, {Request(op, u, pk, d, EmptyDict) :
                        u \in Users, pk \in TagIds, d \in NamePayloads})
      [] op = "tag-retrieve" ->
            Route(op, {Request(op, u, pk, EmptyDict, EmptyDict) :
                        u \in Users, pk \in TagIds})
      [] op = "tag-destroy" ->
            Route(op, {Request(op, u, pk, EmptyDict, q) :
                        u \in Users, pk \in TagIds, q \in AttrQueries})
      [] op = "ingredient-partial-update" ->
            Route(op, {Request(op, u, pk, d, EmptyDict) :
                        u \in Users, pk \in IngredientIds, d \in AttrPayloads})
      [] op = "ingredient-update" ->
            Route(op, {Request(op, u, pk, d, EmptyDict) :
                        u \in Users, pk \in IngredientIds, d \in NamePayloads})
      [] op = "ingredient-retrieve" ->
            Route(op, {Request(op, u, pk, EmptyDict, EmptyDict) :
                        u \in Users, pk \in IngredientIds})
      [] op = "ingredient-destroy" ->
            Route(op, {Request(op, u, pk, EmptyDict, q) :
                        u \in Users, pk \in IngredientIds, q \in AttrQueries})
      [] op \in {"tag-list", "ingredient-list"} ->
            Route(op, {Request(op, u, 0, EmptyDict, EmptyDict) : u \in Users})
      [] op = "user-me-retrieve" ->
            Route(op, {Request(op, u, 0, EmptyDict, EmptyDict) : u \in Users})
      [] op = "user-me-partial-update" ->
            Route(op, {Request(op, u, 0, d, EmptyDict) :
                        u \in Users, d \in ProfilePayloads})

\* ---------------------------------------------------------------- the system
\* wait_for_db before handle is called
NotStarted == [pc |-> "start", db_up |-> FALSE, stdout |-> <<>>, checks |-> <<>>]

\* a server process that handles no request
IdleWorker == [pc |-> "idle", user |-> None, recipe |-> 0, tags |-> <<>>, obj |-> 0]

Init ==
    /\ User = [u \in Users |-> [name |-> "n1"]]
    /\ Tag = EmptyDict
    /\ Ingredient = EmptyDict
    /\ Recipe = EmptyDict
    /\ tag_seq = 1
    /\ ingredient_seq = 1
    /\ recipe_seq = 1
    /\ request = NoRequest
    /\ response = NoResponse
    /\ workers = [w \in Workers |-> IdleWorker]
    /\ command = NotStarted
    /\ database = "down"

\* the ids the tables have handed out once the request is handled
SeqsAfter(req) ==
    [recipe |-> IF req.op = "recipe-create" THEN recipe_seq + 1 ELSE recipe_seq,
     tag |-> IF req.op \in RecipeWrites /\ "tags" \in DOMAIN req.data
             THEN get_or_create_tags(req.data["tags"], req.user, NoTags).seq
             ELSE tag_seq,
     ingredient |->
             IF req.op \in RecipeWrites /\ "ingredients" \in DOMAIN req.data
             THEN get_or_create_ingredients(req.data["ingredients"], req.user,
                                            NoIngredients).seq
             ELSE ingredient_seq]

\* The row the request names is one its sender can see. A handler reads the
\* body only after it found the row, so the requests that name another row
\* are sent with an empty body.
Visible(req) ==
    \/ req.op \in RecipeDetails
         /\ req.pk \in DOMAIN Recipe /\ Recipe[req.pk].user = req.user
    \/ req.op \in TagDetails
         /\ req.pk \in DOMAIN Tag /\ Tag[req.pk].user = req.user
    \/ req.op \in IngredientDetails
         /\ req.pk \in DOMAIN Ingredient /\ Ingredient[req.pk].user = req.user
    \/ req.op \in ProfileOps \cup {"recipe-create"}

\* the request does not take the tables beyond the bounds
InRange(req) ==
    LET after == SeqsAfter(req)
    IN  /\ after.recipe <= MaxRecipeId + 1
        /\ after.tag <= MaxTagId + 1
        /\ after.ingredient <= MaxIngredientId + 1
        /\ (after.recipe - 1) + (after.tag - 1) + (after.ingredient - 1) <= MaxRows

\* a client sends the request
Idle == request = NoRequest

Receive(req) ==
    /\ req.data = EmptyDict \/ Visible(req)
    /\ InRange(req)
    /\ request' = req
    /\ UNCHANGED <<workers, wait>>

\* the response is delivered
Close ==
    /\ response # NoResponse
    /\ request' = NoRequest
    /\ response' = NoResponse
    /\ UNCHANGED <<store, workers, wait>>

\* one request at a time: it is received and handled by the view of its route
Next ==
    \/ Idle /\ \E req \in Requests("recipe-create") :
        /\ Receive(req)
        /\ RecipeCreate(req.user, req.data)
    \/ Idle /\ \E req \in Requests("recipe-update") :
        /\ Receive(req)
        /\ RecipeUpdate(req.user, req.pk, req.data, FALSE, req.query)
    \/ Idle /\ \E req \in Requests("recipe-partial-update") :
        /\ Receive(req)
        /\ RecipeUpdate(req.user, req.pk, req.data, TRUE, req.query)
    \/ Idle /\ \E req \in Requests("recipe-retrieve") :
        /\ Receive(req)
        /\ RecipeRetrieve(req.user, req.pk, req.query)
    \/ Idle /\ \E req \in Requests("recipe-destroy") :
        /\ Receive(req)
        /\ RecipeDestroy(req.user, req.pk, req.query)
    \/ Idle /\ \E req \in Requests("recipe-upload-image") :
        /\ Receive(req)
        /\ RecipeUploadImage(req.user, req.pk, req.data, req.query)
    \/ Idle /\ \E req \in Requests("tag-update") :
        /\ Receive(req)
        /\ TagUpdate(req.user, req.pk, req.data, FALSE, req.query)
    \/ Idle /\ \E req \in Requests("tag-partial-update") :
        /\ Receive(req)
        /\ TagUpdate(req.user, req.pk, req.data, TRUE, req.query)
    \/ Idle /\ \E req \in Requests("tag-destroy") :
        /\ Receive(req)
        /\ TagDestroy(req.user, req.pk, req.query)
    \/ Idle /\ \E req \in Requests("tag-retrieve") :
        /\ Receive(req)
        /\ AttrRetrieve(req.user)
    \/ Idle /\ \E req \in Requests("ingredient-update") :
        /\ Receive(req)
        /\ IngredientUpdate(req.user, req.pk, req.data, FALSE, req.query)
    \/ Idle /\ \E req \in Requests("ingredient-partial-update") :
        /\ Receive(req)
        /\ IngredientUpdate(req.user, req.pk, req.data, TRUE, req.query)
    \/ Idle /\ \E req \in Requests("ingredient-destroy") :
        /\ Receive(req)
        /\ IngredientDestroy(req.user, req.pk, req.query)
    \/ Idle /\ \E req \in Requests("ingredient-retrieve") :
        /\ Receive(req)
        /\ AttrRetrieve(req.user)
    \/ Idle /\ \E req \in Requests("tag-list") :
        /\ Receive(req)
        /\ AttrList(Tag, "tags", req.user, req.query)
    \/ Idle /\ \E req \in Requests("ingredient-list") :
        /\ Receive(req)
        /\ AttrList(Ingredient, "ingredients", req.user, req.query)
    \/ Idle /\ \E req \in Requests("user-me-retrieve") :
        /\ Receive(req)
        /\ UserMeRetrieve(req.user)
    \/ Idle /\ \E req \in Requests("user-me-partial-update") :
        /\ Receive(req)
        /\ UserMeUpdate(req.user, req.data, TRUE)
    \/ Close

Spec == Init /\ [][Next]_vars

\* ------------------------------------------------- requests side by side
\* POST /recipes/ handled by several server processes at once: every
\* database statement of RecipeSerializer.create is a step of its own, and
\* the steps of the processes interleave.

\* Recipe.objects.create(**validated_data)
objects_create_recipe(w, user, tags) ==
    /\ workers[w].pc = "idle"
    /\ recipe_seq <= MaxRecipeId
    /\ Recipe' = Recipe @@ (recipe_seq :> [user |-> user, title |-> "t1",
                                           image |-> None, tags |-> {},
                                           ingredients |-> {}])
    /\ recipe_seq' = recipe_seq + 1
    /\ workers' = [workers EXCEPT ![w] = [pc |-> "get", user |-> user,
                                          recipe |-> recipe_seq, tags |-> tags,
                                          obj |-> 0]]
    /\ UNCHANGED <<User, Tag, Ingredient, tag_seq, ingredient_seq, request, response, wait>>

\* get_or_create, first half: self.get(user=auth_user, name=...)
objects_get(w) ==
    LET self == workers[w]
        found == {t \in DOMAIN Tag :
                    Tag[t].user = self.user /\ Tag[t].name = Head(self.tags)}
    IN  /\ self.pc = "get"
        /\ workers' = [workers EXCEPT ![w] =
              IF self.tags = <<>> THEN [self EXCEPT !.pc = "done"]
              ELSE IF Cardinality(found) > 1
              THEN [self EXCEPT !.pc = "MultipleObjectsReturned"]
              ELSE IF found = {} THEN [self EXCEPT !.pc = "create"]
              ELSE [self EXCEPT !.pc = "add", !.obj = CHOOSE t \in found : TRUE]]
        /\ UNCHANGED <<store, request, response, wait>>

\* a create that looks again and takes the row another process inserted
objects_create_unless_exists(w) ==
    LET self == workers[w]
        found == {t \in DOMAIN Tag :
                    Tag[t].user = self.user /\ Tag[t].name = Head(self.tags)}
    IN  /\ self.pc = "create"
        /\ IF found # {}
           THEN /\ workers' = [workers EXCEPT ![w] =
                        [self EXCEPT !.pc = "add", !.obj = CHOOSE t \in found : TRUE]]
                /\ UNCHANGED <<Tag, tag_seq>>
           ELSE /\ Tag' = Tag @@ (tag_seq :> [user |-> self.user,
                                              name |-> Head(self.tags)])
                /\ tag_seq' = tag_seq + 1
                /\ workers' = [workers EXCEPT ![w] =
                        [self EXCEPT !.pc = "add", !.obj = tag_seq]]
        /\ UNCHANGED <<User, Ingredient, Recipe, ingredient_seq, recipe_seq,
                       request, response, wait>>

\* get_or_create, second half, after DoesNotExist: self.create(user=..., name=...)
objects_create(w) ==
    LET self == workers[w]
    IN  /\ self.pc = "create"
        /\ Tag' = Tag @@ (tag_seq :> [user |-> self.user, name |-> Head(self.tags)])
        /\ tag_seq' = tag_seq + 1
        /\ workers' = [workers EXCEPT ![w] = [self EXCEPT !.pc = "add", !.obj = tag_seq]]
        /\ UNCHANGED <<User, Ingredient, Recipe, ingredient_seq, recipe_seq,
                       request, response, wait>>

\* recipe.tags.add(tag_obj), and on to the next element of the list
tags_add(w) ==
    LET self == workers[w]
    IN  /\ self.pc = "add"
        /\ Recipe' = [Recipe EXCEPT ![self.recipe].tags = @ \cup {self.obj}]
        /\ workers' = [workers EXCEPT ![w] =
                            [self EXCEPT !.pc = "get", !.tags = Tail(@), !.obj = 0]]
        /\ UNCHANGED <<User, Tag, Ingredient, tag_seq, ingredient_seq, recipe_seq,
                       request, response, wait>>

\* the response is sent (201, or 500 after MultipleObjectsReturned)
respond(w) ==
    /\ workers[w].pc \in {"done", "MultipleObjectsReturned"}
    /\ workers' = [workers EXCEPT ![w] = IdleWorker]
    /\ UNCHANGED <<store, request, response, wait>>

\* the tag lists of these requests: up to two names, so that a list can
\* name a tag twice
RaceLists == NameLists(2)

NextRace ==
    \/ \E w \in Workers, user \in Users, tags \in RaceLists :
            objects_create_recipe(w, user, tags)
    \/ \E w \in Workers : objects_get(w)
    \/ \E w \in Workers : objects_create(w)
    \/ \E w \in Workers : tags_add(w)
    \/ \E w \in Workers : respond(w)

SpecRace == Init /\ [][NextRace]_vars

\* ----------------------------------------------------------- the accounts
\* The User table from its first row on: users register, are created by
\* direct calls of the manager, and change their own account.
InitUser ==
    /\ User = <<>>
    /\ Tag = <<>>
    /\ Ingredient = <<>>
    /\ Recipe = <<>>
    /\ tag_seq = 1
    /\ ingredient_seq = 1
    /\ recipe_seq = 1
    /\ request = NoRequest
    /\ response = NoResponse
    /\ workers = [w \in Workers |-> IdleWorker]
    /\ command = NotStarted
    /\ database = "down"

\* the outcome of a direct call: the id of the user returned, or the exception
Returned(out) ==
    [status |-> 0, raised |-> out.raised,
     data |-> IF out.raised = None THEN <<user_seq(out.User) - 1>> ELSE <<>>]

\* get_user_model().objects.create_user(email=..., password=...)
CreateUser(email, password) ==
    LET out == create_user(User, email, password, EmptyDict)
    IN  /\ request' = Request("create_user", None, 0,
                              ("email" :> email) @@ ("password" :> password),
                              EmptyDict)
        /\ User' = out.User
        /\ response' = Returned(out)
        /\ UNCHANGED <<Tag, Ingredient, Recipe, tag_seq, ingredient_seq,
                       recipe_seq, workers, wait>>

\* a request of the user API is received
ReceiveUser(req) ==
    /\ request' = req
    /\ UNCHANGED <<workers, wait>>

\* the table stays within its bound
UsersInRange == Cardinality(DOMAIN User') <= MaxUserId

\* no call and no request is in progress
NoCall == request.op = None

NextUser ==
    \/ NoCall /\ \E email \in Emails \cup {NoEmail}, password \in Passwords \cup {None} :
        /\ CreateUser(email, password)
        /\ UsersInRange
    \/ NoCall /\ \E data \in UserPayloads :
        /\ ReceiveUser(Request("user-create", AnonymousUser, 0, data, EmptyDict))
        /\ UserCreate(data)
        /\ UsersInRange
    \/ NoCall /\ \E user \in UserIds \cup {AnonymousUser}, data \in UserPayloads :
        /\ ReceiveUser(Request("user-me-update", user, 0, data, EmptyDict))
        /\ UserMeUpdate(user, data, FALSE)
    \/ NoCall /\ \E user \in UserIds \cup {AnonymousUser}, data \in UserPayloads :
        /\ ReceiveUser(Request("user-me-partial-update", user, 0, data, EmptyDict))
        /\ UserMeUpdate(user, data, TRUE)
    \/ NoCall /\ \E user \in UserIds \cup {AnonymousUser} :
        /\ ReceiveUser(Request("user-me-retrieve", user, 0, EmptyDict, EmptyDict))
        /\ UserMeRetrieve(user)
    \/ Close

SpecUser == InitUser /\ [][NextUser]_vars

\* create_user on the empty table, with every address up to MaxEmailLen
NextEmail ==
    \/ NoCall /\ User = <<>>
          /\ \E email \in Addresses \cup {NoEmail}, password \in Passwords \cup {None} :
                CreateUser(email, password)
    \/ Close

SpecEmail == InitUser /\ [][NextEmail]_vars

\* ------------------------------------------------------------ wait_for_db
\* Command.handle of wait_for_db, statement by statement, beside a database
\* that comes up and goes down.

\* self.stdout.write("Checking if the db is up ..."); db_up = False
handle ==
    /\ command.pc = "start"
    /\ command' = [command EXCEPT !.pc = "while", !.db_up = FALSE,
                        !.stdout = Append(@, "Checking if the db is up ...")]
    /\ UNCHANGED <<store, request, response, workers, database>>

\* a check that takes an OperationalError for an answer
check_once ==
    /\ command.pc = "while" /\ ~command.db_up
    /\ Len(command.checks) < MaxChecks
    /\ command' = [command EXCEPT
            !.db_up = TRUE,
            !.checks = Append(@, IF database = "up" THEN "ok"
                                 ELSE "OperationalError")]
    /\ UNCHANGED <<store, request, response, workers, database>>

\* while not db_up: self.check(databases=["default"]); db_up = True, or
\* except OperationalError: self.stdout.write("\tNot yet ...")
check ==
    /\ command.pc = "while" /\ ~command.db_up
    /\ IF database = "up"
       THEN command' = [command EXCEPT !.db_up = TRUE,
                                       !.checks = Append(@, "ok")]
       ELSE /\ Len(command.checks) < MaxChecks
            /\ command' = [command EXCEPT
                    !.pc = "sleep",
                    !.checks = Append(@, "OperationalError"),
                    !.stdout = Append(@, "Not yet ...")]
    /\ UNCHANGED <<store, request, response, workers, database>>

\* time.sleep(1)
sleep ==
    /\ command.pc = "sleep"
    /\ command' = [command EXCEPT !.pc = "while"]
    /\ UNCHANGED <<store, request, response, workers, database>>

\* the loop is left: self.stdout.write("Now db is ready!")
ready ==
    /\ command.pc = "while" /\ command.db_up
    /\ command' = [command EXCEPT !.pc = "done",
                                   !.stdout = Append(@, "Now db is ready!")]
    /\ UNCHANGED <<store, request, response, workers, database>>

\* the database starts to accept connections, or stops
db_start ==
    /\ database = "down"
    /\ database' = "up"
    /\ UNCHANGED <<store, request, response, workers, command>>

db_stop ==
    /\ database = "up"
    /\ database' = "down"
    /\ UNCHANGED <<store, request, response, workers, command>>

\* the steps of the command
run == handle \/ check \/ sleep \/ ready

NextWait == handle \/ check \/ sleep \/ ready \/ db_start \/ db_stop

\* the command is a process of its own: it keeps running
SpecWait == Init /\ [][NextWait]_vars /\ WF_vars(run)

\* ----------------------------------------------------------- the listings
\* The listings over the stores that recipe creates and updates build.
\* a filter value: one id, two ids, or a token that is no integer
FilterStrings == {<<"1">>, <<"2">>, <<"1", "2">>, <<"x">>}
RecipeListQueries ==
    {Field("tags", a) @@ Field("ingredients", b) :
        a \in Optional(FilterStrings), b \in Optional(FilterStrings)}
AttrListQueries == {Field("assigned_only", a) : a \in Optional({"0", "1", "x"})}
\* a recipe with its tags, and at most one ingredient
ListCreatePayloads ==
    {Field("title", {"t1"}) @@ Field("tags", {l}) @@ Field("ingredients", i) :
        l \in NameLists(MaxLen), i \in Optional(NameLists(1))}
\* a new tag list or a new ingredient list of at most one element
ListUpdatePayloads ==
    {Field("tags", {l}) : l \in NameLists(1)}
    \cup {Field("ingredients", {l}) : l \in NameLists(1)}

ListRequests(op) ==
    CASE op = "recipe-create" ->
            {Request(op, u, 0, d, EmptyDict) : u \in Users, d \in ListCreatePayloads}
      [] op = "recipe-partial-update" ->
            {Request(op, u, pk, d, EmptyDict) :
                u \in Users, pk \in RecipeIds, d \in ListUpdatePayloads}
      [] op = "recipe-list" ->
            Route(op, {Request(op, u, 0, EmptyDict, q) :
                        u \in Users, q \in RecipeListQueries})
      [] op \in {"tag-list", "ingredient-list"} ->
            Route(op, {Request(op, u, 0, EmptyDict, q) :
                        u \in Users, q \in AttrListQueries})

NextList ==
    \/ Idle /\ \E req \in ListRequests("recipe-create") :
        /\ Receive(req)
        /\ RecipeCreate(req.user, req.data)
    \/ Idle /\ \E req \in ListRequests("recipe-partial-update") :
        /\ Receive(req)
        /\ Visible(req)
        /\ RecipeUpdate(req.user, req.pk, req.data, TRUE, req.query)
    \/ Idle /\ \E req \in ListRequests("recipe-list") :
        /\ Receive(req)
        /\ RecipeList(req.user, req.query)
    \/ Idle /\ \E req \in ListRequests("tag-list") :
        /\ Receive(req)
        /\ AttrList(Tag, "tags", req.user, req.query)
    \/ Idle /\ \E req \in ListRequests("ingredient-list") :
        /\ Receive(req)
        /\ AttrList(Ingredient, "ingredients", req.user, req.query)
    \/ Close

SpecList == Init /\ [][NextList]_vars

\* ================================================================== claims
\* the state right after a handler answered, before the response is delivered
Handled == response # NoResponse
\* the step in which a handler handles a request
Handling == request = NoRequest /\ request' # NoRequest

RecipeUpdates == {"recipe-update", "recipe-partial-update"}
\* the request got as far as serializer.save()
Saved ==
    \/ response.status \in {HTTP_200_OK, HTTP_201_CREATED}
    \/ response.raised = "MultipleObjectsReturned"
\* the recipe a create or an update request wrote
Written == IF request.op = "recipe-create" THEN recipe_seq - 1 ELSE request.pk
NamesOf(list) == {list[k] : k \in DOMAIN list}

\* C1: every tag and every ingredient a recipe references is owned by the
\* owner of that recipe, in every reachable state.
C1_Ownership ==
    \A r \in DOMAIN Recipe :
        /\ \A t \in Recipe[r].tags \cap DOMAIN Tag : Tag[t].user = Recipe[r].user
        /\ \A i \in Recipe[r].ingredients \cap DOMAIN Ingredient :
              Ingredient[i].user = Recipe[r].user

\* two recipes of different users, one with a tag and one with an ingredient
C1_Witness ==
    \E r1, r2 \in DOMAIN Recipe :
        /\ Recipe[r1].user # Recipe[r2].user
        /\ Recipe[r1].tags \cap DOMAIN Tag # {}
        /\ Recipe[r2].ingredients \cap DOMAIN Ingredient # {}

\* C2: an update (PUT or PATCH) whose body has no `tags` key leaves the tag
\* set of the recipe as it was, and one without an `ingredients` key leaves
\* the ingredient set as it was, whatever else the body changes.
C2_AbsentKeyKeepsSet ==
    [][Handling /\ request'.op \in RecipeUpdates /\ request'.pk \in DOMAIN Recipe
        => /\ request'.pk \in DOMAIN Recipe'
           /\ "tags" \notin DOMAIN request'.data
                => Recipe'[request'.pk].tags = Recipe[request'.pk].tags
           /\ "ingredients" \notin DOMAIN request'.data
                => Recipe'[request'.pk].ingredients
                     = Recipe[request'.pk].ingredients]_vars

\* a PATCH that set the title and the ingredients of a tagged recipe
C2_Witness ==
    /\ request.op = "recipe-partial-update"
    /\ response.status = HTTP_200_OK
    /\ DOMAIN request.data = {"title", "ingredients"}
    /\ request.data["ingredients"] # <<>>
    /\ Recipe[request.pk].title = request.data["title"]
    /\ Recipe[request.pk].ingredients # {}
    /\ Recipe[request.pk].tags # {}

\* C3: an update whose body has a `tags` key replaces the tag set: after the
\* call the tags of the recipe are exactly the tags of the acting user that
\* the list names.
C3_TagsKeyReplacesSet ==
    Handled /\ request.op \in RecipeUpdates /\ Saved /\ "tags" \in DOMAIN request.data
        => Recipe[request.pk].tags
             = {t \in DOMAIN Tag : /\ Tag[t].user = request.user
                                   /\ Tag[t].name \in NamesOf(request.data["tags"])}

\* C4: a create with tags attaches exactly one tag of the acting user for
\* every distinct name of the list, and nothing else.
C4_CreateOneTagPerName ==
    Handled /\ request.op = "recipe-create" /\ Saved /\ "tags" \in DOMAIN request.data
        => /\ Written \in DOMAIN Recipe
           /\ \A n \in NamesOf(request.data["tags"]) :
                Cardinality({t \in Recipe[Written].tags \cap DOMAIN Tag :
                               Tag[t].user = request.user /\ Tag[t].name = n}) = 1
           /\ Cardinality(Recipe[Written].tags)
                = Cardinality(NamesOf(request.data["tags"]))

\* C5: reconciliation is idempotent when requests run one after another: a
\* request adds at most one row for an (owner, name), and none when a row
\* for that (owner, name) was there before the request.
C5_ReconcileIdempotent ==
    [][Handling =>
        \A u \in Users, n \in Names :
            LET Same(rows) == {i \in DOMAIN rows :
                                 rows[i].user = u /\ rows[i].name = n}
                Added(old, new) == Same(new) \ DOMAIN old
            IN  /\ Cardinality(Added(Tag, Tag')) <= 1
                /\ Same(Tag) # {} => Added(Tag, Tag') = {}
                /\ Cardinality(Added(Ingredient, Ingredient')) <= 1
                /\ Same(Ingredient) # {} => Added(Ingredient, Ingredient') = {}]_vars

\* a second recipe created with the list [a, a]: one tag row, on both recipes
C5_Witness ==
    /\ request.op = "recipe-create"
    /\ response.status = HTTP_201_CREATED
    /\ "tags" \in DOMAIN request.data
    /\ request.data["tags"] = <<"a", "a">>
    /\ DOMAIN Recipe = {1, 2}
    /\ \E t \in DOMAIN Tag :
        /\ {x \in DOMAIN Tag : Tag[x].user = request.user /\ Tag[x].name = "a"} = {t}
        /\ Recipe[1].tags = {t}
        /\ Recipe[2].tags = {t}

\* C6: no element of a list is dropped and duplicates collapse: after a
\* create or an update with a list, every name of the list is the name of an
\* attached entity, and there are as many attached entities as distinct names.
C6_NoSpecDropped ==
    Handled /\ request.op \in RecipeWrites /\ Saved
        => /\ "tags" \in DOMAIN request.data
                => /\ \A n \in NamesOf(request.data["tags"]) :
                        \E t \in Recipe[Written].tags \cap DOMAIN Tag : Tag[t].name = n
                   /\ Cardinality(Recipe[Written].tags)
                        = Cardinality(NamesOf(request.data["tags"]))
           /\ "ingredients" \in DOMAIN request.data
                => /\ \A n \in NamesOf(request.data["ingredients"]) :
                        \E i \in Recipe[Written].ingredients \cap DOMAIN Ingredient :
                            Ingredient[i].name = n
                   /\ Cardinality(Recipe[Written].ingredients)
                        = Cardinality(NamesOf(request.data["ingredients"]))

\* C7: tags are scoped per user: a request creates tags only for its sender,
\* attaches to a recipe only tags of its sender, a create or an update that
\* succeeds with a tag list leaves the recipe with a tag of its sender for
\* every name of the list, and recipes of different users never share a tag.
C7_TagsScopedPerUser ==
    [][Handling =>
        /\ \A t \in (DOMAIN Tag') \ DOMAIN Tag : Tag'[t].user = request'.user
        /\ /\ request'.op \in RecipeWrites
           /\ response'.status \in {HTTP_200_OK, HTTP_201_CREATED}
           /\ "tags" \in DOMAIN request'.data
           => LET r == IF request'.op = "recipe-create" THEN recipe_seq
                       ELSE request'.pk
              IN  \A n \in NamesOf(request'.data["tags"]) :
                    \E t \in Recipe'[r].tags :
                        Tag'[t].name = n /\ Tag'[t].user = request'.user
        /\ \A r \in DOMAIN Recipe' :
             \A t \in Recipe'[r].tags \ (IF r \in DOMAIN Recipe
                                         THEN Recipe[r].tags ELSE {}) :
                t \in DOMAIN Tag' /\ Tag'[t].user = request'.user
        /\ \A r1, r2 \in DOMAIN Recipe' :
             Recipe'[r1].user # Recipe'[r2].user
                => Recipe'[r1].tags \cap Recipe'[r2].tags = {}]_vars

\* two users each have a recipe with a tag of the same name: two tag rows
C7_Witness ==
    \E r1, r2 \in DOMAIN Recipe :
        \E t1 \in Recipe[r1].tags \cap DOMAIN Tag, t2 \in Recipe[r2].tags \cap DOMAIN Tag :
            /\ Recipe[r1].user # Recipe[r2].user
            /\ Tag[t1].name = Tag[t2].name
            /\ t1 # t2
            /\ Tag[t1].user = Recipe[r1].user
            /\ Tag[t2].user = Recipe[r2].user

\* C8: the owner cannot be set through a request body: a created recipe
\* belongs to the sender of the request, and no request changes the owner of
\* a recipe, a tag or an ingredient, whatever `user` its body carries.
C8_OwnerNotSettable ==
    [][Handling =>
        /\ \A r \in DOMAIN Recipe' :
             Recipe'[r].user = (IF r \in DOMAIN Recipe THEN Recipe[r].user
                                ELSE request'.user)
        /\ \A t \in (DOMAIN Tag') \cap DOMAIN Tag : Tag'[t].user = Tag[t].user
        /\ \A i \in (DOMAIN Ingredient') \cap DOMAIN Ingredient :
             Ingredient'[i].user = Ingredient[i].user]_vars

\* a PATCH that names another user as owner went through, and set the title only
C8_Witness ==
    /\ request.op = "recipe-partial-update"
    /\ response.status = HTTP_200_OK
    /\ DOMAIN request.data = {"title", "user"}
    /\ request.data["user"] # request.user
    /\ Recipe[request.pk].title = request.data["title"]
    /\ Recipe[request.pk].user = request.user

DetailOps == RecipeDetails \cup TagDetails \cup IngredientDetails
\* the table the route of the request reads
Target(req) == IF req.op \in RecipeDetails THEN Recipe
               ELSE IF req.op \in TagDetails THEN Tag
               ELSE Ingredient
\* a detail request of a user on a row of another user
Foreign(req) ==
    /\ req.op \in DetailOps
    /\ req.user \in DOMAIN User
    /\ req.pk \in DOMAIN Target(req)
    /\ Target(req)[req.pk].user # req.user
\* a filter of the query string is no integer
Malformed(req) ==
    \/ \E k \in {"tags", "ingredients"} \cap DOMAIN req.query :
         \E j \in DOMAIN req.query[k] : ~IsInt(req.query[k][j])
    \/ "assigned_only" \in DOMAIN req.query /\ ~IsInt(req.query["assigned_only"])

C10_Unauthenticated401 ==
    [][Handling /\ request'.user \notin DOMAIN User =>
        /\ response' = Response(HTTP_401_UNAUTHORIZED)
        /\ UNCHANGED store]_vars

\* DELETE without a credential on a recipe that exists answered 401
C10_Witness ==
    /\ request.op = "recipe-destroy"
    /\ request.user \notin DOMAIN User
    /\ request.pk \in DOMAIN Recipe
    /\ response.status = HTTP_401_UNAUTHORIZED

\* ------------------------------------------------------------- listings
\* the recipes of a user
Own(user) == {r \in DOMAIN Recipe : Recipe[r].user = user}
\* the ids a filter value names
Ids(tokens) == {int(tokens[k]) : k \in DOMAIN tokens}
\* a listing of a user that was answered
Listed(op) == Handled /\ request.op = op /\ request.user \in DOMAIN User
\* descending ids, none twice
StrictlyDescending(rows) ==
    \A j, k \in DOMAIN rows : j < k => rows[j] > rows[k]

\* C11: the recipe listing without filters returns exactly the recipes of
\* the acting user, each once, by descending id.
C11_ListOwnRecipes ==
    Listed("recipe-list") /\ request.query = EmptyDict
        => /\ response.status = HTTP_200_OK
           /\ NamesOf(response.data) = Own(request.user)
           /\ StrictlyDescending(response.data)

\* the user has two recipes and the listing returned both, the newer first
C11_Witness ==
    /\ Listed("recipe-list")
    /\ request.query = EmptyDict
    /\ Cardinality(Own(request.user)) = 2
    /\ Len(response.data) = 2
    /\ response.data[1] > response.data[2]

\* C12: with a tag filter alone the listing returns exactly the recipes of
\* the acting user that reference one of the ids, each once though it may
\* reference several of them; the same with an ingredient filter alone.
C12_ListOneFilter ==
    /\ Listed("recipe-list") /\ DOMAIN request.query = {"tags"} /\ ~Malformed(request)
        => /\ response.status = HTTP_200_OK
           /\ NamesOf(response.data)
                = {r \in Own(request.user) :
                     Recipe[r].tags \cap Ids(request.query["tags"]) # {}}
           /\ StrictlyDescending(response.data)
    /\ Listed("recipe-list") /\ DOMAIN request.query = {"ingredients"}
                             /\ ~Malformed(request)
        => /\ response.status = HTTP_200_OK
           /\ NamesOf(response.data)
                = {r \in Own(request.user) :
                     Recipe[r].ingredients \cap Ids(request.query["ingredients"]) # {}}
           /\ StrictlyDescending(response.data)

\* tags=1,2: a recipe with both tags is listed once, one with neither is not
C12_Witness ==
    /\ Listed("recipe-list")
    /\ DOMAIN request.query = {"tags"}
    /\ request.query["tags"] = <<"1", "2">>
    /\ Len(response.data) = 1
    /\ Recipe[response.data[1]].tags = {1, 2}
    /\ \E r \in Own(request.user) : Recipe[r].tags = {}

\* C13: with a tag filter and an ingredient filter the listing returns
\* exactly the recipes of the acting user that reference one of the tags and
\* one of the ingredients, each once.
C13_ListBothFilters ==
    Listed("recipe-list") /\ DOMAIN request.query = {"tags", "ingredients"}
                          /\ ~Malformed(request)
        => /\ response.status = HTTP_200_OK
           /\ NamesOf(response.data)
                = {r \in Own(request.user) :
                     /\ Recipe[r].tags \cap Ids(request.query["tags"]) # {}
                     /\ Recipe[r].ingredients
                          \cap Ids(request.query["ingredients"]) # {}}
           /\ StrictlyDescending(response.data)

\* both filters: a recipe with the tag and the ingredient is listed, one
\* with the tag alone is not
C13_Witness ==
    /\ Listed("recipe-list")
    /\ DOMAIN request.query = {"tags", "ingredients"}
    /\ ~Malformed(request)
    /\ Len(response.data) = 1
    /\ \E r \in Own(request.user) \ {response.data[1]} :
        /\ Recipe[r].tags \cap Ids(request.query["tags"]) # {}
        /\ Recipe[r].ingredients = {}

\* C14: a recipe listing whose filter has a token that is no integer is
\* answered 400.
C14_MalformedFilterIs400 ==
    Listed("recipe-list") /\ Malformed(request)
        => response.status = HTTP_400_BAD_REQUEST

\* the entities a tag or ingredient listing reads, and the recipes' sets of them
Listable == IF request.op = "tag-list" THEN Tag ELSE Ingredient
Referenced(i) ==
    \E r \in DOMAIN Recipe :
        i \in (IF request.op = "tag-list" THEN Recipe[r].tags
               ELSE Recipe[r].ingredients)

\* C15: the tag and the ingredient listing return the entities of the acting
\* user by descending name, each once; with assigned_only=1 those of them
\* that a recipe references, with assigned_only absent or 0 all of them.
C15_ListOwnedAttr ==
    (Listed("tag-list") \/ Listed("ingredient-list")) /\ ~Malformed(request)
        => LET assigned_only == /\ "assigned_only" \in DOMAIN request.query
                                /\ request.query["assigned_only"] # "0"
               data == response.data
           IN  /\ response.status = HTTP_200_OK
               /\ NamesOf(data)
                    = {i \in DOMAIN Listable :
                         /\ Listable[i].user = request.user
                         /\ assigned_only => Referenced(i)}
               /\ \A j, k \in DOMAIN data : j < k =>
                    /\ data[j] # data[k]
                    /\ ord(Listable[data[j]].name) >= ord(Listable[data[k]].name)

\* assigned_only=1: of two tags of the user the one that two recipes
\* reference is listed, once
C15_Witness ==
    /\ Listed("tag-list")
    /\ Get(request.query, "assigned_only", "0") = "1"
    /\ Cardinality({t \in DOMAIN Tag : Tag[t].user = request.user}) = 2
    /\ Len(response.data) = 1
    /\ Cardinality({r \in DOMAIN Recipe : response.data[1] \in Recipe[r].tags}) = 2

\* C16: tags and ingredients are created by recipe reconciliation alone: a
\* request adds a tag or an ingredient row only if it is a recipe create or
\* update, and the row belongs to its sender; the tag and ingredient routes
\* (list, update, delete) never add one.
C16_CreatedByReconciliationOnly ==
    [][Handling =>
        /\ (DOMAIN Tag') \ DOMAIN Tag # {}
             => /\ request'.op \in RecipeWrites
                /\ \A t \in (DOMAIN Tag') \ DOMAIN Tag : Tag'[t].user = request'.user
        /\ (DOMAIN Ingredient') \ DOMAIN Ingredient # {}
             => /\ request'.op \in RecipeWrites
                /\ \A i \in (DOMAIN Ingredient') \ DOMAIN Ingredient :
                     Ingredient'[i].user = request'.user]_vars

\* a PUT that renamed a tag went through and the tags are those of before
C16_Witness ==
    /\ request.op = "tag-update"
    /\ response.status = HTTP_200_OK
    /\ request.pk \in DOMAIN Tag
    /\ Tag[request.pk].name = request.data["name"]
    /\ Cardinality(DOMAIN Tag) = tag_seq - 1

\* C17: tags and ingredients outlive detachment: the delete of a recipe and
\* an update of a recipe remove membership links only; every tag and every
\* ingredient row of before is there after, as it was.
C17_EntitiesOutliveDetachment ==
    [][Handling /\ request'.op \in RecipeUpdates \cup {"recipe-destroy"} =>
        /\ \A t \in DOMAIN Tag : t \in DOMAIN Tag' /\ Tag'[t] = Tag[t]
        /\ \A i \in DOMAIN Ingredient :
             i \in DOMAIN Ingredient' /\ Ingredient'[i] = Ingredient[i]]_vars

\* the only recipe was deleted and its tag and its ingredient are there
C17_Witness ==
    /\ request.op = "recipe-destroy"
    /\ response.status = HTTP_204_NO_CONTENT
    /\ DOMAIN Recipe = {}
    /\ DOMAIN Tag # {}
    /\ DOMAIN Ingredient # {}

\* C18: no user owns two tags of the same name, and no user owns two
\* ingredients of the same name, in any reachable state.
C18_NamesUniquePerUser ==
    /\ \A t1, t2 \in DOMAIN Tag :
         Tag[t1].user = Tag[t2].user /\ Tag[t1].name = Tag[t2].name => t1 = t2
    /\ \A i1, i2 \in DOMAIN Ingredient :
         Ingredient[i1].user = Ingredient[i2].user
            /\ Ingredient[i1].name = Ingredient[i2].name => i1 = i2

\* C19: get_or_create reads, then writes: a process that found a tag
\* inserts none, and a process that found none inserts one, whatever another
\* process has inserted since. Two requests of a user that name the same
\* new tag can so both insert it.
C19_GetThenCreate ==
    [][\A w \in Workers :
        /\ workers[w].pc = "get" /\ workers'[w].pc # "get" => Tag' = Tag
        /\ workers[w].pc = "create" /\ workers'[w].pc # "create"
             => \E t \in (DOMAIN Tag') \ DOMAIN Tag :
                    /\ DOMAIN Tag' = DOMAIN Tag \cup {t}
                    /\ Tag'[t] = [user |-> workers[w].user,
                                  name |-> Head(workers[w].tags)]
                    /\ workers'[w].obj = t]_vars

\* two recipes of one user, created side by side with the same tag name,
\* reference two tags of that name
C19_Witness ==
    \E r1, r2 \in DOMAIN Recipe :
        \E t1 \in Recipe[r1].tags, t2 \in Recipe[r2].tags :
            /\ r1 # r2
            /\ t1 # t2
            /\ Recipe[r1].user = Recipe[r2].user
            /\ Tag[t1].user = Tag[t2].user
            /\ Tag[t1].name = Tag[t2].name

\* several rows of the user carry the name: the lookup of get_or_create raises
Ambiguous(name, rows, user) ==
    Cardinality({i \in DOMAIN rows :
                    rows[i].user = user /\ rows[i].name = name}) > 1

\* the names of the list up to the first one that several rows of the user
\* carry, where the reconciliation raises
RECURSIVE Reconciled(_, _, _)
Reconciled(list, rows, user) ==
    IF list = <<>> \/ Ambiguous(Head(list), rows, user) THEN {}
    ELSE {Head(list)} \cup Reconciled(Tail(list), rows, user)

\* C20: a recipe create or update that fails leaves in the tables what it
\* wrote before it failed: no row is removed, the recipe a create inserted
\* is there, so is a tag for every name of the tag list before the one that
\* failed, and, when the tag list went through, an ingredient for every name
\* of the ingredient list before the one that failed.
C20_NoRollback ==
    [][Handling /\ request'.op \in RecipeWrites
         /\ response'.raised = "MultipleObjectsReturned"
       => LET user == request'.user
              tags == Get(request'.data, "tags", <<>>)
              ingredients == Get(request'.data, "ingredients", <<>>)
              tags_failed == \E n \in NamesOf(tags) : Ambiguous(n, Tag, user)
          IN  /\ \A t \in DOMAIN Tag : t \in DOMAIN Tag' /\ Tag'[t] = Tag[t]
              /\ \A i \in DOMAIN Ingredient :
                    i \in DOMAIN Ingredient' /\ Ingredient'[i] = Ingredient[i]
              /\ request'.op = "recipe-create" => recipe_seq \in DOMAIN Recipe'
              /\ \A n \in Reconciled(tags, Tag, user) :
                    \E t \in DOMAIN Tag' : Tag'[t] = [user |-> user, name |-> n]
              /\ ~tags_failed =>
                    \A n \in Reconciled(ingredients, Ingredient, user) :
                        \E i \in DOMAIN Ingredient' :
                            Ingredient'[i] = [user |-> user, name |-> n]]_vars

\* an update failed in its ingredient list after its tag list went through:
\* the tag of the request is the newest row of the tag table and is attached
C20_Witness ==
    /\ request.op \in RecipeUpdates
    /\ response.raised = "MultipleObjectsReturned"
    /\ {"tags", "ingredients"} \subseteq DOMAIN request.data
    /\ request.data["tags"] # <<>>
    /\ \A n \in NamesOf(request.data["tags"]) : ~Ambiguous(n, Tag, request.user)
    /\ \E n \in NamesOf(request.data["ingredients"]) :
            Ambiguous(n, Ingredient, request.user)
    /\ tag_seq - 1 \in Recipe[request.pk].tags
    /\ Tag[tag_seq - 1].name \in NamesOf(request.data["tags"])

\* ------------------------------------------------------------ the accounts
\* a call of create_user, direct or through POST /users/, has just returned
\* a new user
Creating ==
    /\ request.op = None
    /\ request'.op \in {"create_user", "user-create"}
    /\ response'.raised = None
    /\ response'.status \in {0, HTTP_201_CREATED}
\* the position of the last "@" of an address, 0 if it has none
LastAt(email) ==
    LET at == {k \in DOMAIN email : email[k] = "@"}
    IN  IF at = {} THEN 0 ELSE CHOOSE k \in at : \A j \in at : j <= k
\* upper-case letters and their lower-case letters
LowerCase(c) == IF c = "A" THEN "a" ELSE c
\* the address with the letters after its last "@" in lower case
DomainLowered(email) ==
    [k \in DOMAIN email |->
        IF LastAt(email) > 0 /\ k > LastAt(email) THEN LowerCase(email[k])
        ELSE email[k]]
\* the two addresses differ at most in the letter case of the domain part
SameButDomainCase(e1, e2) ==
    /\ e1 # NoEmail /\ e2 # NoEmail
    /\ DomainLowered(e1) = DomainLowered(e2)
\* the rows the step inserted into the User table
NewUsers == (DOMAIN User') \ DOMAIN User

\* C21 as stated: create_user stores the whole address in lower case
C21_WholeAddressLowered ==
    [][Creating =>
        \A u \in NewUsers :
            User'[u].email = [k \in DOMAIN request'.data["email"] |->
                                LowerCase(request'.data["email"][k])]]_vars

\* C21: create_user stores the address with its domain part in lower case
\* and its local part as given, one row per call, and no user had that
\* address; while the row is there, create_user with an address that differs
\* only in the letter case of the domain creates no user.
C21_DomainLoweredOnce ==
    [][Creating =>
        LET email == request'.data["email"]
        IN  /\ Cardinality(NewUsers) = 1
            /\ \A u \in NewUsers : User'[u].email = DomainLowered(email)
            /\ \A u \in DOMAIN User : User[u].email # DomainLowered(email)
            /\ \A other \in Emails :
                  SameButDomainCase(email, other) =>
                    create_user(User', other, "password", EmptyDict).raised
                        = "IntegrityError"]_vars

\* a user was created from an address with capitals in both parts, and is
\* stored with those of the domain part in lower case
C21_Witness ==
    /\ request.op \in {"create_user", "user-create"}
    /\ response.raised = None
    /\ response.status \in {0, HTTP_201_CREATED}
    /\ request.data["email"] = <<"A", "@", "A">>
    /\ \E u \in DOMAIN User : User[u].email = <<"A", "@", "a">>
    /\ \A u \in DOMAIN User : User[u].email # <<"a", "@", "a">>

\* a direct call of create_user has returned a user
Created == request.op = "create_user" /\ response.raised = None

\* C22: create_user stores an address (one that has an "@" and no white
\* space around it) with the letters after the last "@" in lower case and
\* every character up to it unchanged, and normalize_email is idempotent:
\* on the address given and on the address stored.
C22_NormalizeDomainOnly ==
    Created =>
        LET email == request.data["email"]
            stored == User[response.data[1]].email
        IN  /\ LastAt(email) > 0 /\ strip(email) = email =>
                /\ Len(stored) = Len(email)
                /\ \A k \in DOMAIN email :
                      stored[k] = IF k > LastAt(email) THEN LowerCase(email[k])
                                  ELSE email[k]
            /\ normalize_email(normalize_email(email)) = normalize_email(email)
            /\ normalize_email(stored) = stored

\* Test4@Test.coM in small: capitals in both parts, stored with the local
\* part as given and the domain part in lower case
C22_Witness ==
    /\ Created
    /\ request.data["email"] = <<"A", "@", "A">>
    /\ User[response.data[1]].email = <<"A", "@", "a">>

\* a call of create_user or a registration comes without an address: the
\* address is empty, None, or not in the body
WithoutEmail(req) ==
    /\ req.op \in {"create_user", "user-create"}
    /\ \/ "email" \notin DOMAIN req.data
       \/ req.data["email"] = <<>>
       \/ req.data["email"] = NoEmail

\* C23: create_user with an empty or missing address raises ValueError, a
\* registration without an address is answered 400, and the User table is
\* after the call what it was before it.
C23_NoEmailNoUser ==
    [][request.op = None /\ WithoutEmail(request') =>
        /\ User' = User
        /\ request'.op = "create_user" => response'.raised = "ValueError"
        /\ request'.op = "user-create" =>
                response'.status = HTTP_400_BAD_REQUEST]_vars

\* create_user("") has raised ValueError, with a user in the table
C23_Witness ==
    /\ request.op = "create_user"
    /\ request.data["email"] = <<>>
    /\ response.raised = "ValueError"
    /\ User # <<>>

\* the body registers an address a user has, or a password of fewer than
\* min_length characters
Refused(data) ==
    \/ "email" \in DOMAIN data /\ \E u \in DOMAIN User : User[u].email = data["email"]
    \/ "password" \in DOMAIN data /\ Len(data["password"]) < 5

C25_StoredNormalized ==
    \A u \in DOMAIN User : normalize_email(User[u].email) = User[u].email

\* ------------------------------------------------------------- the relations
\* the entities the listing with assigned_only=1 is made of
Assigned(rows, field, user) ==
    AttrQueryset(rows, field, user, "assigned_only" :> "1").ids
\* the entities of the user that a recipe of the user references
AssignedByOwn(rows, field, user) ==
    {i \in DOMAIN rows :
        /\ rows[i].user = user
        /\ \E r \in DOMAIN Recipe : Recipe[r].user = user /\ i \in Recipe[r][field]}

\* C26: in every state the API reaches, the listing with assigned_only=1,
\* whose join looks at the recipes of every user, is for every user the set
\* of the user's entities that a recipe of the same user references.
C26_AssignedJoinIsOwnerScoped ==
    \A user \in Users :
        /\ Assigned(Tag, "tags", user) = AssignedByOwn(Tag, "tags", user)
        /\ Assigned(Ingredient, "ingredients", user)
                = AssignedByOwn(Ingredient, "ingredients", user)

\* two users with recipes and assigned tags of their own
C26_Witness ==
    \E u1, u2 \in Users :
        /\ u1 # u2
        /\ Assigned(Tag, "tags", u1) # {}
        /\ Assigned(Tag, "tags", u2) # {}

\* --------------------------------------------------------------- the reads
\* everything the store holds of a user: the user's recipes with their sets,
\* the user's tags and the user's ingredients
OwnedBy(rows, user) ==
    [i \in {j \in DOMAIN rows : rows[j].user = user} |-> rows[i]]
Owned(user) ==
    <<OwnedBy(Recipe, user), OwnedBy(Tag, user), OwnedBy(Ingredient, user)>>

\* what GET /recipes/ answers the user, for every query
RecipeListings(user) ==
    [q \in RecipeListQueries |->
        LET queryset == RecipeQueryset(user, q)
        IN  IF queryset.raised # None THEN Unhandled(queryset.raised)
            ELSE Listing(queryset.rows)]
\* the recipes whose detail routes answer the user
RecipeDetailsOf(user) ==
    {pk \in RecipeIds : pk \in ToSet(RecipeQueryset(user, EmptyDict).rows)}
\* what GET /tags/ or GET /ingredients/ can answer the user, for every query
AttrListings(rows, field, user) ==
    [q \in AttrListQueries |->
        LET queryset == AttrQueryset(rows, field, user, q)
        IN  IF queryset.raised # None THEN {Unhandled(queryset.raised)}
            ELSE {Listing(distinct(Expand(order, queryset.mult))) :
                    order \in OrdersByNameDesc(rows, queryset.ids)}]
\* every read of the user
Reads(user) ==
    <<RecipeListings(user), RecipeDetailsOf(user),
      AttrListings(Tag, "tags", user),
      AttrListings(Ingredient, "ingredients", user)>>

\* C27: of two different stores, one step apart, that agree on everything a user owns
\* and differ in what other users own, each answers every list and detail
\* request of the user as the other does: the recipes under every tag and
\* ingredient filter, the ids of other users' tags among them, and the tags
\* and ingredients with and without assigned_only.
C27_ReadsOfOwnOnly ==
    [][store' # store =>
        \A user \in Users :
            Owned(user)' = Owned(user) => Reads(user)' = Reads(user)]_vars

\* a user who has a recipe with a tag listed the recipes by the tag of
\* another user and got none
C27_Witness ==
    /\ Listed("recipe-list")
    /\ response.status = HTTP_200_OK
    /\ response.data = <<>>
    /\ DOMAIN request.query = {"tags"}
    /\ \A t \in Ids(request.query["tags"]) :
            t \in DOMAIN Tag /\ Tag[t].user # request.user
    /\ \E r \in Own(request.user) : Recipe[r].tags # {}
    /\ \E r \in DOMAIN Recipe :
            Recipe[r].tags \cap Ids(request.query["tags"]) # {}

\* a tag or an ingredient was deleted by the request just handled
Deleting(op) ==
    Handling /\ request'.op = op /\ response'.status = HTTP_204_NO_CONTENT
\* the recipes are the same but for the field, which lost pk and nothing else
Detached(field, pk) ==
    /\ DOMAIN Recipe' = DOMAIN Recipe
    /\ \A r \in DOMAIN Recipe :
          /\ pk \notin Recipe'[r][field]
          /\ Recipe'[r] = [Recipe[r] EXCEPT ![field] = @ \ {pk}]

\* C28: every id in the tag set or the ingredient set of a recipe is the id
\* of a row of the Tag or the Ingredient table; and a DELETE of a tag or an
\* ingredient takes it out of every recipe's set and leaves the recipes, and
\* everything else they hold, as they were.
C28_ReferentialIntegrity ==
    [][/\ \A r \in DOMAIN Recipe' :
            /\ Recipe'[r].tags \subseteq DOMAIN Tag'
            /\ Recipe'[r].ingredients \subseteq DOMAIN Ingredient'
       /\ Deleting("tag-destroy") =>
            /\ request'.pk \notin DOMAIN Tag'
            /\ Detached("tags", request'.pk)
       /\ Deleting("ingredient-destroy") =>
            /\ request'.pk \notin DOMAIN Ingredient'
            /\ Detached("ingredients", request'.pk)]_vars

\* a tag was deleted and a recipe of its owner is there with its other tag
C28_Witness ==
    /\ request.op = "tag-destroy"
    /\ response.status = HTTP_204_NO_CONTENT
    /\ \E r \in Own(request.user) :
            /\ Recipe[r].tags # {}
            /\ request.pk \notin Recipe[r].tags

\* C29: an update whose tag or ingredient reconciliation fails leaves the
\* scalar fields and the owner of the recipe as they were before the request,
\* whatever the body said and whatever became of the two sets.
C29_ScalarsAfterReconciliation ==
    [][Handling /\ request'.op \in RecipeUpdates
         /\ response'.raised = "MultipleObjectsReturned"
       => LET before == Recipe[request'.pk]
              after == Recipe'[request'.pk]
          IN  \A f \in (DOMAIN before) \ {"tags", "ingredients"} :
                    after[f] = before[f]]_vars

\* an update with a new title failed in its tag list: the set was cleared,
\* the title is not the one of the body
C29_Witness ==
    /\ request.op \in RecipeUpdates
    /\ response.raised = "MultipleObjectsReturned"
    /\ "title" \in DOMAIN request.data
    /\ "tags" \in DOMAIN request.data
    /\ Recipe[request.pk].title # request.data["title"]
    /\ Recipe[request.pk].tags = {}

\* ------------------------------------------------------------ wait_for_db
\* the outcomes of the checks made so far
Outcomes == {command.checks[k] : k \in DOMAIN command.checks}
Wrote(line) == \E k \in DOMAIN command.stdout : command.stdout[k] = line

\* C30: wait_for_db checks again after every OperationalError and finishes
\* when a check succeeds, never before: it reports the database ready only
\* after a check that succeeded, which is its last check, every check before
\* it failed and was answered "Not yet ..."; and if the database comes to
\* stay available, the command terminates.
C30_WaitsForACheckToSucceed ==
    /\ [](Wrote("Now db is ready!") \/ command.pc = "done" =>
            /\ command.checks # <<>>
            /\ command.checks[Len(command.checks)] = "ok"
            /\ \A k \in 1..(Len(command.checks) - 1) :
                    command.checks[k] = "OperationalError")
    /\ [](Cardinality({k \in DOMAIN command.stdout :
                            command.stdout[k] = "Not yet ..."})
            = Cardinality({k \in DOMAIN command.checks :
                            command.checks[k] = "OperationalError"}))
    /\ (<>[](database = "up") => <>(command.pc = "done"))

\* the command finished after two checks that failed and one that succeeded
C30_Witness ==
    /\ command.pc = "done"
    /\ command.checks = <<"OperationalError", "OperationalError", "ok">>
    /\ Wrote("Now db is ready!")

====
